---------------------------- MODULE Spec2Model ----------------------------
(***************************************************************************)
(* Model of the song-structure and songwriting-metadata engine of          *)
(* helpers.js, and of the two layers that compile its results into the     *)
(* EnhancedMetadata document (generateEnhancedMetadata of audio-handler.js *)
(* and the POST / handler of index.js).  Every exported helper is a pure   *)
(* function; one invocation is one action that draws the arguments from   *)
(* bounded sets, applies the helper as the source computes it and records  *)
(* the outcome in ret.                                                     *)
(*                                                                         *)
(* Numbers: JavaScript numbers are modelled as exact rationals [n, d] in   *)
(* lowest terms, with d = 0 for the non-finite values (NaN is 0/0, the     *)
(* infinities are 1/0 and -1/0).  A number is named by the rational it     *)
(* stands for; the sign of zero is not modelled, and the rounding of       *)
(* binary floating point is modelled where the engine compares two sums    *)
(* that are equal as rationals, in the guard of generateLoopPoints.        *)
(***************************************************************************)
EXTENDS Integers, Sequences, FiniteSets, TLC

VARIABLES pc, op, args, ret, log, http

vars == <<pc, op, args, ret, log, http>>

-----------------------------------------------------------------------------
(* Bounds of the model                                                     *)

MaxBeatTime == 6

MaxLoopLen == 3

MaxLoopLengths == 2

MaxFrames == 5

MaxMotifFrames == 7

MaxMinOccurrences == 2

MaxQuoteFrames == 10

MaxPsychFrames == 2

MaxStoryFrames == 5

MaxInvocations == 3

\* frames of the harmony series of a loop
MaxHarmonyFrames == 4

\* entries of the compiled data that the POST / handler uploads (27 in the
\* handler)
MaxUploadKeys == 4

-----------------------------------------------------------------------------
(* Numbers                                                                 *)

Abs(x) == IF x < 0 THEN -x ELSE x

Sign(x) == IF x < 0 THEN -1 ELSE IF x > 0 THEN 1 ELSE 0

RECURSIVE GCD(_, _)
GCD(a, b) == IF b = 0 THEN a ELSE GCD(b, a % b)

Rat(n, d) ==
  IF d = 0 THEN [n |-> Sign(n), d |-> 0]
  ELSE LET g == GCD(Abs(n), Abs(d))
           s == IF d < 0 THEN -1 ELSE 1
       IN  [n |-> (s * n) \div g, d |-> (s * d) \div g]

Num(i) == [n |-> i, d |-> 1]

NaN == [n |-> 0, d |-> 0]

Infinity == [n |-> 1, d |-> 0]

IsNaN(a) == a.d = 0 /\ a.n = 0

RNeg(a) == [n |-> -a.n, d |-> a.d]

RAdd(a, b) ==
  IF IsNaN(a) \/ IsNaN(b) THEN NaN
  ELSE IF a.d = 0 /\ b.d = 0 THEN (IF a.n = b.n THEN a ELSE NaN)
  ELSE IF a.d = 0 THEN a
  ELSE IF b.d = 0 THEN b
  ELSE Rat(a.n * b.d + b.n * a.d, a.d * b.d)

RSub(a, b) == RAdd(a, RNeg(b))

RMul(a, b) ==
  IF IsNaN(a) \/ IsNaN(b) THEN NaN
  ELSE IF a.d = 0 \/ b.d = 0
       THEN [n |-> Sign(a.n) * Sign(b.n), d |-> 0]
  ELSE Rat(a.n * b.n, a.d * b.d)

RInv(a) ==
  IF IsNaN(a) THEN NaN
  ELSE IF a.d = 0 THEN Num(0)
  ELSE IF a.n = 0 THEN Infinity
  ELSE Rat(a.d, a.n)

RDiv(a, b) == RMul(a, RInv(b))

RLt(a, b) ==
  /\ ~IsNaN(a)
  /\ ~IsNaN(b)
  /\ IF a.d = 0 /\ b.d = 0 THEN a.n < b.n
     ELSE IF a.d = 0 THEN a.n < 0
     ELSE IF b.d = 0 THEN b.n > 0
     ELSE a.n * b.d < b.n * a.d

RGt(a, b) == RLt(b, a)

RLe(a, b) == ~IsNaN(a) /\ ~IsNaN(b) /\ ~RLt(b, a)

RAbs(a) == [n |-> Abs(a.n), d |-> a.d]

\* Math.max / Math.min of two numbers: NaN if either is NaN
RMax(a, b) == IF IsNaN(a) \/ IsNaN(b) THEN NaN ELSE IF RLt(a, b) THEN b ELSE a

RMin(a, b) == IF IsNaN(a) \/ IsNaN(b) THEN NaN ELSE IF RLt(b, a) THEN b ELSE a

\* arr.reduce((a, b) => a + b, 0)
RECURSIVE RSum(_)
RSum(s) == IF s = <<>> THEN Num(0) ELSE RAdd(RSum(SubSeq(s, 1, Len(s) - 1)), s[Len(s)])

-----------------------------------------------------------------------------
(* Binary64 values of generateLoopPoints                                   *)

\* The guard of generateLoopPoints compares two sums that are equal as
\* rationals when the beats are just enough for one loop, so it is decided on
\* the IEEE 754 binary64 values the engine computes.  A non-negative value x
\* is held as the integer x * 2^75, written in limbs of 15 bits, least limb
\* first; every binary64 value between 2^-22 and 2^15 is such an integer.

LimbBits == 15

RECURSIVE Pow2(_)
Pow2(k) == IF k = 0 THEN 1 ELSE 2 * Pow2(k - 1)

Limb == Pow2(LimbBits)

\* the integer n * 2^75, for 0 <= n < Limb: five limbs below the binary
\* point and one above it
IntLimbs(n) == <<0, 0, 0, 0, 0, n>>

ZeroLimbs == IntLimbs(0)

\* a + b + c from limb i on
RECURSIVE AddLimbs(_, _, _, _)
AddLimbs(a, b, i, c) ==
  IF i > Len(a) THEN <<>>
  ELSE LET v == a[i] + b[i] + c
       IN  <<v % Limb>> \o AddLimbs(a, b, i + 1, v \div Limb)

\* a - b - c from limb i on, for a >= b
RECURSIVE SubLimbs(_, _, _, _)
SubLimbs(a, b, i, c) ==
  IF i > Len(a) THEN <<>>
  ELSE LET v == a[i] - b[i] - c
       IN  IF v < 0 THEN <<v + Limb>> \o SubLimbs(a, b, i + 1, 1)
           ELSE <<v>> \o SubLimbs(a, b, i + 1, 0)

\* a * m + c from limb i on, for 0 <= m < Limb
RECURSIVE MulLimbs(_, _, _, _)
MulLimbs(a, m, i, c) ==
  IF i > Len(a) THEN <<>>
  ELSE LET v == a[i] * m + c
       IN  <<v % Limb>> \o MulLimbs(a, m, i + 1, v \div Limb)

\* the limbs 1..i of the quotient of (r, a[i], ..., a[1]) by d, 0 < d < Limb
RECURSIVE DivLimbs(_, _, _, _)
DivLimbs(a, d, i, r) ==
  IF i = 0 THEN <<>>
  ELSE LET v == r * Limb + a[i]
       IN  DivLimbs(a, d, i - 1, v % d) \o <<v \div d>>

\* the remainder of that division
RECURSIVE ModLimbs(_, _, _, _)
ModLimbs(a, d, i, r) ==
  IF i = 0 THEN r ELSE ModLimbs(a, d, i - 1, (r * Limb + a[i]) % d)

\* -1, 0 or 1 as a < b, a = b or a > b, comparing from limb i down
RECURSIVE CmpLimbs(_, _, _)
CmpLimbs(a, b, i) ==
  IF i = 0 THEN 0
  ELSE IF a[i] < b[i] THEN -1
  ELSE IF a[i] > b[i] THEN 1
  ELSE CmpLimbs(a, b, i - 1)

\* the index of the highest set bit of a limb v > 0
RECURSIVE TopBit(_)
TopBit(v) == IF v < 2 THEN 0 ELSE 1 + TopBit(v \div 2)

\* the index of the highest non-zero limb of a, 0 if there is none
RECURSIVE TopLimb(_, _)
TopLimb(a, i) == IF i = 0 \/ a[i] # 0 THEN i ELSE TopLimb(a, i - 1)

\* the integer 2^r in limbs
BitLimbs(r) ==
  [i \in DOMAIN ZeroLimbs |->
     IF i = (r \div LimbBits) + 1 THEN Pow2(r % LimbBits) ELSE 0]

\* the bits of a below bit r
LowLimbs(a, r) ==
  [i \in DOMAIN ZeroLimbs |->
     IF i < (r \div LimbBits) + 1 THEN a[i]
     ELSE IF i = (r \div LimbBits) + 1 THEN a[i] % Pow2(r % LimbBits)
     ELSE 0]

\* round to nearest, ties to even, at 53 significant bits: a is the exact
\* result cut off below 2^-75, sticky tells whether anything was cut off
RoundBinary64(a, sticky) ==
  LET h == TopLimb(a, Len(a))
      p == IF h = 0 THEN 0 ELSE LimbBits * (h - 1) + TopBit(a[h])
      r == p - 52
  IN  IF r < 1 THEN a
      ELSE LET low   == LowLimbs(a, r)
               down  == SubLimbs(a, low, 1, 0)
               up    == AddLimbs(down, BitLimbs(r), 1, 0)
               half  == CmpLimbs(low, BitLimbs(r - 1), Len(a))
               odd   == (a[(r \div LimbBits) + 1] \div Pow2(r % LimbBits)) % 2 = 1
           IN  IF half > 0 \/ (half = 0 /\ (sticky \/ odd)) THEN up ELSE down

\* the binary64 value nearest to t / 10 (a beat time given in tenths)
Binary64OfTenths(t) ==
  RoundBinary64(DivLimbs(IntLimbs(t), 10, Len(ZeroLimbs), 0),
                ModLimbs(IntLimbs(t), 10, Len(ZeroLimbs), 0) # 0)

\* a + b on binary64 values
Binary64Add(a, b) == RoundBinary64(AddLimbs(a, b, 1, 0), FALSE)

\* a - b on binary64 values, for a >= b
Binary64Sub(a, b) == RoundBinary64(SubLimbs(a, b, 1, 0), FALSE)

\* a / n on a binary64 value and a count n
Binary64DivInt(a, n) ==
  RoundBinary64(DivLimbs(a, n, Len(a), 0), ModLimbs(a, n, Len(a), 0) # 0)

\* n * a on a binary64 value and a positive whole number n
Binary64MulInt(n, a) == RoundBinary64(MulLimbs(a, n, 1, 0), FALSE)

\* a <= b on binary64 values
Binary64Le(a, b) == CmpLimbs(a, b, Len(a)) <= 0

\* arr.reduce((a, b) => a + b, 0) on binary64 values
RECURSIVE Binary64Sum(_)
Binary64Sum(s) ==
  IF s = <<>> THEN ZeroLimbs
  ELSE Binary64Add(Binary64Sum(SubSeq(s, 1, Len(s) - 1)), s[Len(s)])

-----------------------------------------------------------------------------
(* Outcomes of one invocation                                              *)

Returned(v) == [status |-> "returned", value |-> v]

\* the call never comes back (a loop whose index does not advance)
Diverged == [status |-> "diverged", value |-> <<>>]

\* the call throws
Raised == [status |-> "raised", value |-> <<>>]

\* an argument that was not passed (undefined) or passed as an array
Absent == [present |-> FALSE, v |-> <<>>]

Given(s) == [present |-> TRUE, v |-> s]

\* the members of a set of numbers in ascending order
RECURSIVE SortedSeq(_)
SortedSeq(S) ==
  IF S = {} THEN <<>>
  ELSE LET m == CHOOSE x \in S : \A y \in S : x <= y
       IN  <<m>> \o SortedSeq(S \ {m})

RECURSIVE Flatten(_)
Flatten(ss) == IF ss = <<>> THEN <<>> ELSE Head(ss) \o Flatten(Tail(ss))

-----------------------------------------------------------------------------
(* generateLoopPoints                                                      *)

\* a beat time; the beat series hold their times in tenths of a second
BeatTime(t) == Rat(t, 10)

\* the intervals between consecutive beats
beatIntervals(beats) ==
  [i \in 1..(Len(beats) - 1) |-> BeatTime(beats[i + 1] - beats[i])]

avgBeatInterval(beats) ==
  RDiv(RSum(beatIntervals(beats)), Num(Len(beatIntervals(beats))))

\* mutant of LoopId: the start index left out of the id
LoopIdLengthOnly(length, i) == "loop-" \o ToString(length)

\* mutant of LoopId: the loops are numbered by a counter that outlives the
\* invocation
LoopIdAcrossInvocations(length, i) ==
  "loop-" \o ToString(length) \o "-" \o ToString(i + Len(log))

\* `loop-${length}-${i}`
LoopId(length, i) == "loop-" \o ToString(length) \o "-" \o ToString(i)

\* the beat times as the engine holds them
beatTimes64(beats) == [k \in DOMAIN beats |-> Binary64OfTenths(beats[k])]

\* beatIntervals as the engine computes them
beatIntervals64(times) ==
  [i \in 1..(Len(times) - 1) |-> Binary64Sub(times[i + 1], times[i])]

\* avgBeatInterval as the engine computes it
avgBeatInterval64(times) ==
  Binary64DivInt(Binary64Sum(beatIntervals64(times)), Len(times) - 1)

\* mutant of EndFits: the loop is added whatever its end
EndFitsAlways(start, loopDuration, last) == TRUE

\* the guard "only add if we have enough beats", on the start beats[i], the
\* loop duration and the last beat time
EndFits(start, loopDuration, last) ==
  Binary64Le(Binary64Add(start, loopDuration), last)

\* for (let i = 0; i < beats.length - length; i += length), from index i on
RECURSIVE LoopsFrom(_, _, _, _, _)
LoopsFrom(beats, times, avg, length, i) ==
  IF ~(i < Len(beats) - length) THEN <<>>
  ELSE LET start == BeatTime(beats[i + 1])
           end   == RAdd(start, RMul(Num(length), avgBeatInterval(beats)))
           here  == IF EndFits(times[i + 1], Binary64MulInt(length, avg),
                               times[Len(times)])
                    THEN << [id        |-> LoopId(length, i),
                             start     |-> start,
                             end       |-> end,
                             length    |-> length,
                             type      |-> ToString(length) \o "-beat",
                             startBeat |-> i,
                             endBeat   |-> i + length] >>
                    ELSE <<>>
       IN  here \o LoopsFrom(beats, times, avg, length, i + length)

\* the for loop of one length ends: its index advances, or its test fails at once
LoopTerminates(beats, length) == length > 0 \/ ~(0 < Len(beats) - length)

\* mutant of generateLoopPoints: only a missing beats argument returns early
generateLoopPointsAnyCount(beats, loopLengths) ==
  IF ~beats.present THEN Returned(<<>>)
  ELSE IF \E k \in DOMAIN loopLengths : ~LoopTerminates(beats.v, loopLengths[k])
       THEN Diverged
  ELSE LET times == beatTimes64(beats.v)
           avg   == avgBeatInterval64(times)
       IN  Returned(Flatten([k \in DOMAIN loopLengths |->
                               LoopsFrom(beats.v, times, avg, loopLengths[k], 0)]))

generateLoopPoints(beats, loopLengths) ==
  IF ~beats.present \/ Len(beats.v) < 2 THEN Returned(<<>>)
  ELSE IF \E k \in DOMAIN loopLengths : ~LoopTerminates(beats.v, loopLengths[k])
       THEN Diverged
  ELSE LET times == beatTimes64(beats.v)
           avg   == avgBeatInterval64(times)
       IN  Returned(Flatten([k \in DOMAIN loopLengths |->
                               LoopsFrom(beats.v, times, avg, loopLengths[k], 0)]))

-----------------------------------------------------------------------------
(* Feature frames                                                          *)

\* a numeric entry of a series, in hundredths (0.35 is NumEntry(35))
NumEntry(v) == [kind |-> "num", v |-> v]

\* an object entry: {value: v} of energy or danceability, {bpm: v} of tempo
ObjEntry(v) == [kind |-> "obj", v |-> v]

\* a null entry: typeof null === 'object', and null.value throws
NullEntry == [kind |-> "null", v |-> 0]

\* if (x): an object is truthy, a number is truthy unless it is 0
Truthy(e) == e.kind = "obj" \/ e.v # 0

\* features.x && features.x[j]: the series is there, holds index j (0-based)
\* and the entry is truthy
HasTruthy(series, j) ==
  series.present /\ j + 1 \in DOMAIN series.v /\ Truthy(series.v[j + 1])

\* typeof e === 'object' ? e.value || 0 : e
EntryValue(e) == Rat(e.v, 100)

\* e.bpm || 0: a number has no bpm property
EntryBpm(e) == IF e.kind = "obj" THEN Num(e.v) ELSE Num(0)

RECURSIVE Join(_, _)
Join(strs, sep) ==
  IF strs = <<>> THEN ""
  ELSE IF Len(strs) = 1 THEN strs[1]
  ELSE strs[1] \o sep \o Join(Tail(strs), sep)

\* JSON.stringify of an array whose items are already serialised
JsonArray(items) == "[" \o Join(items, ",") \o "]"

JsonString(str) == "\"" \o str \o "\""

\* JSON.stringify of a harmony frame {chords: [...]}
JsonHarmony(frame) ==
  "{\"chords\":" \o
  JsonArray([k \in DOMAIN frame.chords |-> JsonString(frame.chords[k])]) \o "}"

\* Math.sqrt, on the perfect squares the modelled vectors produce
Sqrt(x) == CHOOSE r \in 0..x : r * r = x

\* the frame indices lo..hi-1 (0-based), in order
FrameRange(lo, hi) == [k \in 1..(hi - lo) |-> lo + k - 1]

\* the values Val(j) of the frames j that pass the test Keep, in order
Collect(frames, Keep(_), Val(_)) ==
  LET kept == SelectSeq(frames, Keep) IN [k \in DOMAIN kept |-> Val(kept[k])]

-----------------------------------------------------------------------------
(* detectSongSections                                                      *)

calculateVariance(arr) ==
  IF Len(arr) = 0 THEN Num(0)
  ELSE LET mean == RDiv(RSum(arr), Num(Len(arr)))
           sq   == [k \in DOMAIN arr |-> RMul(RSub(arr[k], mean), RSub(arr[k], mean))]
       IN  RDiv(RSum(sq), Num(Len(arr)))

detectHarmonyChange(harmony) ==
  IF Len(harmony) < 2 THEN Num(0)
  ELSE LET changes == Cardinality({i \in 2..Len(harmony) :
                         JsonHarmony(harmony[i]) # JsonHarmony(harmony[i - 1])})
       IN  RDiv(Num(changes), Num(Len(harmony)))

RECURSIVE SumInts(_)
SumInts(s) == IF s = <<>> THEN 0 ELSE Head(s) + SumInts(Tail(s))

euclideanDistance(arr1, arr2) ==
  IF Len(arr1) # Len(arr2) THEN 0
  ELSE Sqrt(SumInts([i \in DOMAIN arr1 |-> (arr1[i] - arr2[i]) * (arr1[i] - arr2[i])]))

detectTimbreChange(timbre) ==
  IF Len(timbre) < 2 THEN Num(0)
  ELSE LET totalDistance ==
             SumInts([i \in 1..(Len(timbre) - 1) |->
                        euclideanDistance(timbre[i + 1].mfcc, timbre[i].mfcc)])
       IN  RDiv(Num(totalDistance), Num(Len(timbre) - 1))

\* Math.max(...arr)
RECURSIVE MaxOf(_)
MaxOf(arr) ==
  IF Len(arr) = 1 THEN arr[1] ELSE RMax(arr[1], MaxOf(Tail(arr)))

Min2(a, b) == IF a < b THEN a ELSE b

\* Math.floor(2 / frameDuration), for a positive frame duration
WindowSizeOf(frameDuration) ==
  LET q == RDiv(Num(2), frameDuration) IN q.n \div q.d

\* the window that starts at frame i, with the features of its frames
WindowAt(features, i, windowSize) ==
  LET startFrame == i
      endFrame   == Min2(i + windowSize, Len(features.energy.v))
      Defined(j) == j + 1 \in DOMAIN features.energy.v
      HasTempo(j)   == HasTruthy(features.tempo, j)
      HasHarmony(j) == features.harmony.present /\ j + 1 \in DOMAIN features.harmony.v
      HasTimbre(j)  == features.timbre.present /\ j + 1 \in DOMAIN features.timbre.v
      Energy(j)  == EntryValue(features.energy.v[j + 1])
      Tempo(j)   == EntryBpm(features.tempo.v[j + 1])
      Harmony(j) == features.harmony.v[j + 1]
      Timbre(j)  == features.timbre.v[j + 1]
  IN  [startFrame |-> startFrame,
       endFrame   |-> endFrame,
       energy     |-> Collect(FrameRange(startFrame, endFrame), Defined, Energy),
       tempo      |-> Collect(FrameRange(startFrame, endFrame), HasTempo, Tempo),
       harmony    |-> Collect(FrameRange(startFrame, endFrame), HasHarmony, Harmony),
       timbre     |-> Collect(FrameRange(startFrame, endFrame), HasTimbre, Timbre)]

\* for (let i = 0; i < features.energy.length; i += windowSize), windowSize > 0
RECURSIVE WindowsFrom(_, _, _)
WindowsFrom(features, i, windowSize) ==
  IF ~(i < Len(features.energy.v)) THEN <<>>
  ELSE <<WindowAt(features, i, windowSize)>> \o
       WindowsFrom(features, i + windowSize, windowSize)

WindowStat(window, frameDuration) ==
  [start          |-> RMul(Num(window.startFrame), frameDuration),
   end            |-> RMul(Num(window.endFrame), frameDuration),
   avgEnergy      |-> IF Len(window.energy) > 0
                      THEN RDiv(RSum(window.energy), Num(Len(window.energy)))
                      ELSE Num(0),
   maxEnergy      |-> IF Len(window.energy) > 0 THEN MaxOf(window.energy) ELSE Num(0),
   avgTempo       |-> IF Len(window.tempo) > 0
                      THEN RDiv(RSum(window.tempo), Num(Len(window.tempo)))
                      ELSE Num(0),
   energyVariance |-> calculateVariance(window.energy),
   harmonyChange  |-> detectHarmonyChange(window.harmony),
   timbreChange   |-> detectTimbreChange(window.timbre)]

\* the test of a section boundary at window curr, coming from window prev
IsBoundary(prev, curr) ==
  LET energyChange == RDiv(RAbs(RSub(curr.avgEnergy, prev.avgEnergy)),
                           RAdd(prev.avgEnergy, Rat(1, 1000)))
      tempoChange  == RDiv(RAbs(RSub(curr.avgTempo, prev.avgTempo)),
                           RAdd(prev.avgTempo, Rat(1, 1000)))
  IN  \/ RGt(energyChange, Rat(3, 10))
      \/ RGt(tempoChange, Rat(15, 100))
      \/ RGt(curr.harmonyChange, Rat(5, 10))
      \/ RGt(curr.timbreChange, Rat(4, 10))

\* for (let i = 1; i < windowStats.length - 1; i++): the flagged windows from i on
RECURSIVE FlaggedFrom(_, _)
FlaggedFrom(windowStats, i) ==
  IF ~(i < Len(windowStats) - 1) THEN <<>>
  ELSE (IF IsBoundary(windowStats[i], windowStats[i + 1]) THEN <<i>> ELSE <<>>) \o
       FlaggedFrom(windowStats, i + 1)

\* mutant of Boundaries: the closing boundary is not pushed
BoundariesNoEnd(windowStats) == <<0>> \o FlaggedFrom(windowStats, 1)

\* boundaries: window indices (0-based), the first and the last window included
Boundaries(windowStats) ==
  <<0>> \o FlaggedFrom(windowStats, 1) \o <<Len(windowStats) - 1>>

\* windowStats.slice(startIdx, endIdx + 1)
SectionWindows(windowStats, startIdx, endIdx) ==
  SubSeq(windowStats, startIdx + 1, endIdx + 1)

\* mutant of ClassifySection: the outro rule is tried before the intro rule
ClassifySectionOutroFirst(avgEnergy, energyVariance, isLast) ==
  IF RGt(avgEnergy, Rat(7, 10)) /\ RLt(energyVariance, Rat(1, 10))
    THEN [type |-> "chorus", confidence |-> Rat(8, 10)]
  ELSE IF isLast /\ RLt(avgEnergy, Rat(4, 10))
    THEN [type |-> "outro", confidence |-> Rat(7, 10)]
  ELSE IF RLt(avgEnergy, Rat(3, 10))
    THEN [type |-> "intro", confidence |-> Rat(7, 10)]
  ELSE IF RGt(energyVariance, Rat(3, 10))
    THEN [type |-> "bridge", confidence |-> Rat(6, 10)]
  ELSE [type |-> "verse", confidence |-> Rat(5, 10)]

ClassifySection(avgEnergy, energyVariance, isLast) ==
  IF RGt(avgEnergy, Rat(7, 10)) /\ RLt(energyVariance, Rat(1, 10))
    THEN [type |-> "chorus", confidence |-> Rat(8, 10)]
  ELSE IF RLt(avgEnergy, Rat(3, 10))
    THEN [type |-> "intro", confidence |-> Rat(7, 10)]
  ELSE IF isLast /\ RLt(avgEnergy, Rat(4, 10))
    THEN [type |-> "outro", confidence |-> Rat(7, 10)]
  ELSE IF RGt(energyVariance, Rat(3, 10))
    THEN [type |-> "bridge", confidence |-> Rat(6, 10)]
  ELSE [type |-> "verse", confidence |-> Rat(5, 10)]

\* the section between boundaries[i] and boundaries[i + 1] (i is 0-based)
SectionAt(windowStats, boundaries, i) ==
  LET sectionWindows == SectionWindows(windowStats, boundaries[i + 1], boundaries[i + 2])
      count          == Num(Len(sectionWindows))
      avgEnergy      == RDiv(RSum([k \in DOMAIN sectionWindows |->
                                     sectionWindows[k].avgEnergy]), count)
      avgTempo       == RDiv(RSum([k \in DOMAIN sectionWindows |->
                                     sectionWindows[k].avgTempo]), count)
      energyVariance == RDiv(RSum([k \in DOMAIN sectionWindows |->
                                     sectionWindows[k].energyVariance]), count)
      class          == ClassifySection(avgEnergy, energyVariance,
                                        i = Len(boundaries) - 2)
  IN  [type       |-> class.type,
       start      |-> sectionWindows[1].start,
       end        |-> sectionWindows[Len(sectionWindows)].end,
       confidence |-> class.confidence,
       metadata   |-> [avgEnergy      |-> avgEnergy,
                       avgTempo       |-> avgTempo,
                       energyVariance |-> energyVariance]]

detectSongSections(features, sampleRate, hopSize) ==
  LET frameDuration == RDiv(Num(hopSize), Num(sampleRate))
      windowSize    == WindowSizeOf(frameDuration)
  IN  IF ~features.energy.present \/ Len(features.energy.v) = 0 THEN Returned(<<>>)
      ELSE IF windowSize = 0 THEN Diverged
      ELSE IF \E j \in DOMAIN features.energy.v : features.energy.v[j] = NullEntry
           THEN Raised
      ELSE LET windows     == WindowsFrom(features, 0, windowSize)
               windowStats == [k \in DOMAIN windows |-> WindowStat(windows[k], frameDuration)]
               boundaries  == Boundaries(windowStats)
           IN  Returned([i \in 1..(Len(boundaries) - 1) |->
                           SectionAt(windowStats, boundaries, i - 1)])

-----------------------------------------------------------------------------
(* extractMotifs and detectQuotes                                          *)

\* a melody frame {pitch: [...]}, a harmony frame {chords: [...]}, and a frame
\* that holds neither property
MelodyFrame(pitch) ==
  [hasPitch |-> TRUE, pitch |-> pitch, hasChords |-> FALSE, chords |-> <<>>]

HarmonyFrame(chords) ==
  [hasPitch |-> FALSE, pitch |-> <<>>, hasChords |-> TRUE, chords |-> chords]

BareFrame ==
  [hasPitch |-> FALSE, pitch |-> <<>>, hasChords |-> FALSE, chords |-> <<>>]

\* arr.slice(0, n)
SliceTo(arr, n) == SubSeq(arr, 1, Min2(n, Len(arr)))

\* the frames start..start+length-1 that exist and hold the property of the
\* type, each reduced to its first 5 pitch values or first 4 chords
extractPattern(features, start, length, type) ==
  LET frames == FrameRange(start, Min2(start + length, Len(features)))
      Has(i) == IF type = "melodic" THEN features[i + 1].hasPitch
                ELSE type = "harmonic" /\ features[i + 1].hasChords
      Val(i) == IF type = "melodic" THEN SliceTo(features[i + 1].pitch, 5)
                ELSE SliceTo(features[i + 1].chords, 4)
  IN  Collect(frames, Has, Val)

\* JSON.stringify(pattern)
PatternKey(pattern, type) ==
  JsonArray([k \in DOMAIN pattern |->
     JsonArray([x \in DOMAIN pattern[k] |->
        IF type = "melodic" THEN ToString(pattern[k][x])
        ELSE JsonString(pattern[k][x])])])

\* mutant of ScanStarts: a window is started at every index of the series
ScanStartsEveryIndex(n, length) == FrameRange(0, n)

\* for (let i = 0; i < features.length - length; i++)
ScanStarts(n, length) == FrameRange(0, n - length)

\* the Map after patterns.get(key).occurrences.push(i), in insertion order
AddOccurrence(groups, key, pattern, i) ==
  IF \E g \in DOMAIN groups : groups[g].key = key
  THEN [g \in DOMAIN groups |->
          IF groups[g].key = key
          THEN [groups[g] EXCEPT !.occurrences = Append(@, i)]
          ELSE groups[g]]
  ELSE Append(groups, [key |-> key, pattern |-> pattern, occurrences |-> <<i>>])

\* the Map of the windows starts[1..upto]
RECURSIVE GroupWindows(_, _, _, _, _)
GroupWindows(features, type, length, starts, upto) ==
  IF upto = 0 THEN <<>>
  ELSE LET pattern == extractPattern(features, starts[upto], length, type)
       IN  AddOccurrence(GroupWindows(features, type, length, starts, upto - 1),
                         PatternKey(pattern, type), pattern, starts[upto])

PatternGroups(features, type, length) ==
  LET starts == ScanStarts(Len(features), length)
  IN  GroupWindows(features, type, length, starts, Len(starts))

\* Math.sqrt(sum) < 0.1 on pitch values, which are whole numbers
calculatePatternSimilarity(pattern1, pattern2) ==
  IF Len(pattern1) # Len(pattern2) THEN Num(0)
  ELSE LET matches == Cardinality({i \in DOMAIN pattern1 :
                         RLt(Num(euclideanDistance(pattern1[i], pattern2[i])), Rat(1, 10))})
       IN  RDiv(Num(matches), Num(Len(pattern1)))

detectPatternEvolution(pattern, occurrences, features) ==
  IF Len(occurrences) < 2 THEN "stable"
  ELSE LET first == extractPattern(features, occurrences[1], Len(pattern), "melodic")
           last  == extractPattern(features, occurrences[Len(occurrences)],
                                   Len(pattern), "melodic")
           similarity == calculatePatternSimilarity(first, last)
       IN  IF RGt(similarity, Rat(8, 10)) THEN "stable"
           ELSE IF RGt(similarity, Rat(5, 10)) THEN "variation"
           ELSE "transformation"

Spans(occurrences, length) ==
  [k \in DOMAIN occurrences |-> [start |-> occurrences[k], end |-> occurrences[k] + length]]

\* mutant of Repeats: the threshold itself is not enough
RepeatsMoreThan(occurrences, minOccurrences) == Len(occurrences) > minOccurrences

\* if (data.occurrences.length >= minOccurrences)
Repeats(occurrences, minOccurrences) == Len(occurrences) >= minOccurrences

\* mutant of findRepeatingPatterns: the id does not name the type
findRepeatingPatternsIdByIndex(features, type, minOccurrences) ==
  LET patternLength == 4
      groups == PatternGroups(features, type, patternLength)
      Kept(g) == Repeats(g.occurrences, minOccurrences)
      kept   == SelectSeq(groups, Kept)
  IN  [k \in DOMAIN kept |->
         [id          |-> "motif-" \o ToString(k - 1),
          type        |-> type,
          pattern     |-> kept[k].pattern,
          occurrences |-> Spans(kept[k].occurrences, patternLength),
          evolution   |-> detectPatternEvolution(kept[k].pattern,
                                                 kept[k].occurrences, features)]]

findRepeatingPatterns(features, type, minOccurrences) ==
  LET patternLength == 4
      groups == PatternGroups(features, type, patternLength)
      Kept(g) == Repeats(g.occurrences, minOccurrences)
      kept   == SelectSeq(groups, Kept)
  IN  [k \in DOMAIN kept |->
         [id          |-> "motif-" \o type \o "-" \o ToString(k - 1),
          type        |-> type,
          pattern     |-> kept[k].pattern,
          occurrences |-> Spans(kept[k].occurrences, patternLength),
          evolution   |-> detectPatternEvolution(kept[k].pattern,
                                                 kept[k].occurrences, features)]]

extractMotifs(pitchMelody, chords, minOccurrences) ==
  LET melodicMotifs  == IF pitchMelody.present /\ Len(pitchMelody.v) > 0
                        THEN findRepeatingPatterns(pitchMelody.v, "melodic", minOccurrences)
                        ELSE <<>>
      harmonicMotifs == IF chords.present /\ Len(chords.v) > 0
                        THEN findRepeatingPatterns(chords.v, "harmonic", minOccurrences)
                        ELSE <<>>
  IN  Returned(melodicMotifs \o harmonicMotifs)

findQuotes(features, type, phraseLength) ==
  LET phrases == PatternGroups(features, type, phraseLength)
      Twice(g) == Len(g.occurrences) >= 2
      kept     == SelectSeq(phrases, Twice)
  IN  [k \in DOMAIN kept |->
         [type     |-> type,
          original |-> [start |-> kept[k].occurrences[1],
                        end   |-> kept[k].occurrences[1] + phraseLength],
          quoted   |-> Spans(Tail(kept[k].occurrences), phraseLength)]]

detectQuotes(pitchMelody, chords) ==
  LET melodicQuotes  == IF pitchMelody.present /\ Len(pitchMelody.v) > 0
                        THEN findQuotes(pitchMelody.v, "melodic", 8)
                        ELSE <<>>
      harmonicQuotes == IF chords.present /\ Len(chords.v) > 0
                        THEN findQuotes(chords.v, "harmonic", 8)
                        ELSE <<>>
  IN  Returned(melodicQuotes \o harmonicQuotes)

-----------------------------------------------------------------------------
(* analyzeStoryArc                                                         *)

\* frame.pitch.filter(p => p > 0), as numbers
PositivePitches(pitch) ==
  LET Positive(p) == p > 0
      kept == SelectSeq(pitch, Positive)
  IN  [k \in DOMAIN kept |-> Num(kept[k])]

\* the tension points: one per frame that holds a pitch property
TensionOf(pitchMelody, frameDuration) ==
  LET HasPitch(i) == pitchMelody[i + 1].hasPitch
      Point(i) == [time  |-> RMul(Num(i), frameDuration),
                   value |-> calculateVariance(PositivePitches(pitchMelody[i + 1].pitch))]
  IN  Collect(FrameRange(0, Len(pitchMelody)), HasPitch, Point)

\* mutant of ReleaseOf: a point level with a neighbour counts as a minimum
ReleaseOfNotAbove(tension) ==
  LET IsRelease(i) == /\ i > 0
                      /\ i < Len(tension) - 1
                      /\ RLe(tension[i + 1].value, tension[i].value)
                      /\ RLe(tension[i + 1].value, tension[i + 2].value)
      Point(i) == [time |-> tension[i + 1].time, value |-> tension[i + 1].value]
  IN  Collect(FrameRange(0, Len(tension)), IsRelease, Point)

\* tension.forEach: the inner points that lie below both neighbours
ReleaseOf(tension) ==
  LET IsRelease(i) == /\ i > 0
                      /\ i < Len(tension) - 1
                      /\ RLt(tension[i + 1].value, tension[i].value)
                      /\ RLt(tension[i + 1].value, tension[i + 2].value)
      Point(i) == [time |-> tension[i + 1].time, value |-> tension[i + 1].value]
  IN  Collect(FrameRange(0, Len(tension)), IsRelease, Point)

\* mutant of findPeaks: a value equal to the threshold is a peak too
findPeaksFromThreshold(arr, threshold) ==
  LET IsPeak(i) == /\ RGt(arr[i + 1], arr[i])
                   /\ RGt(arr[i + 1], arr[i + 2])
                   /\ RLe(threshold, arr[i + 1])
      Same(i) == i
  IN  Collect(FrameRange(1, Len(arr) - 1), IsPeak, Same)

\* for (let i = 1; i < arr.length - 1; i++): the indices above both neighbours
\* and above the threshold
findPeaks(arr, threshold) ==
  LET IsPeak(i) == /\ RGt(arr[i + 1], arr[i])
                   /\ RGt(arr[i + 1], arr[i + 2])
                   /\ RGt(arr[i + 1], threshold)
      Same(i) == i
  IN  Collect(FrameRange(1, Len(arr) - 1), IsPeak, Same)

\* mutant of inferNarrativeStructure: no fallback for an empty structure
inferNarrativeStructureJoinOnly(tension, release) ==
  LET peaks     == findPeaks([k \in DOMAIN tension |-> tension[k].value], Rat(5, 10))
      structure == [k \in DOMAIN peaks |->
                      IF k - 1 = 0 THEN "intro"
                      ELSE IF (k - 1) % 2 = 1 THEN "verse" ELSE "chorus"]
  IN  Join(structure, "-")

inferNarrativeStructure(tension, release) ==
  LET peaks     == findPeaks([k \in DOMAIN tension |-> tension[k].value], Rat(5, 10))
      structure == [k \in DOMAIN peaks |->
                      IF k - 1 = 0 THEN "intro"
                      ELSE IF (k - 1) % 2 = 1 THEN "verse" ELSE "chorus"]
  IN  IF Len(structure) = 0 THEN "unknown" ELSE Join(structure, "-")

analyzeStoryArc(pitchMelody, chords, sampleRate, hopSize) ==
  LET frameDuration == RDiv(Num(hopSize), Num(sampleRate))
      tension == IF pitchMelody.present /\ Len(pitchMelody.v) > 0
                 THEN TensionOf(pitchMelody.v, frameDuration)
                 ELSE <<>>
      release == ReleaseOf(tension)
  IN  Returned([tension            |-> tension,
                release            |-> release,
                narrativeStructure |-> inferNarrativeStructure(tension, release)])

-----------------------------------------------------------------------------
(* calculatePsychologicalDescriptors                                       *)

Max2(a, b) == IF a > b THEN a ELSE b

\* series?.length || 0
LengthOrZero(series) == IF series.present THEN Len(series.v) ELSE 0

\* danceability[i] / energy[i]: typeof e === 'object' ? e.value || 0 : e,
\* and 0.5 when the entry is missing or falsy
ValueOrDefault(series, i) ==
  IF HasTruthy(series, i) THEN EntryValue(series.v[i + 1]) ELSE Rat(5, 10)

\* tempo[i]: typeof e === 'object' ? e.bpm || 120 : e, and 120 when the entry
\* is missing or falsy
TempoOrDefault(series, i) ==
  IF HasTruthy(series, i)
  THEN (IF series.v[i + 1].kind = "obj" /\ series.v[i + 1].v = 0 THEN Num(120)
        ELSE Num(series.v[i + 1].v))
  ELSE Num(120)

\* mutant of TrajectoryPoint: the valence is the danceability as it comes
TrajectoryPointUnclamped(danceability, energy, tempo, i, frameDuration) ==
  LET dance == ValueOrDefault(danceability, i)
      en    == ValueOrDefault(energy, i)
      temp  == TempoOrDefault(tempo, i)
      normalizedTempo == RMin(Num(1), RDiv(temp, Num(200)))
      arousal == RAdd(RMul(en, Rat(6, 10)), RMul(normalizedTempo, Rat(4, 10)))
  IN  [time |-> RMul(Num(i), frameDuration), valence |-> dance, arousal |-> arousal]

TrajectoryPoint(danceability, energy, tempo, i, frameDuration) ==
  LET dance == ValueOrDefault(danceability, i)
      en    == ValueOrDefault(energy, i)
      temp  == TempoOrDefault(tempo, i)
      valence == RMin(Num(1), RMax(Num(0), dance))
      normalizedTempo == RMin(Num(1), RDiv(temp, Num(200)))
      arousal == RAdd(RMul(en, Rat(6, 10)), RMul(normalizedTempo, Rat(4, 10)))
  IN  [time |-> RMul(Num(i), frameDuration), valence |-> valence, arousal |-> arousal]

\* mutant of OverallOf: the mean is taken of an empty trajectory too
OverallOfAlwaysMean(values) == RDiv(RSum(values), Num(Len(values)))

\* trajectory.length > 0 ? sum / trajectory.length : 0.5
OverallOf(values) ==
  IF Len(values) > 0 THEN RDiv(RSum(values), Num(Len(values))) ELSE Rat(5, 10)

\* mutant of detectParadigmShifts: a change of exactly the threshold counts
detectParadigmShiftsFromThreshold(trajectory) ==
  LET threshold == Rat(3, 10)
      valenceChange(i) == RAbs(RSub(trajectory[i + 1].valence, trajectory[i].valence))
      arousalChange(i) == RAbs(RSub(trajectory[i + 1].arousal, trajectory[i].arousal))
      IsShift(i) == RLe(threshold, valenceChange(i)) \/ RLe(threshold, arousalChange(i))
      Shift(i)   ==
        [time      |-> trajectory[i + 1].time,
         type      |-> IF RGt(valenceChange(i), arousalChange(i))
                       THEN "valence" ELSE "arousal",
         magnitude |-> RMax(valenceChange(i), arousalChange(i)),
         from      |-> [valence |-> trajectory[i].valence,
                        arousal |-> trajectory[i].arousal],
         to        |-> [valence |-> trajectory[i + 1].valence,
                        arousal |-> trajectory[i + 1].arousal]]
  IN  Collect(FrameRange(1, Len(trajectory)), IsShift, Shift)

\* for (let i = 1; i < trajectory.length; i++), threshold 0.3
detectParadigmShifts(trajectory) ==
  LET threshold == Rat(3, 10)
      valenceChange(i) == RAbs(RSub(trajectory[i + 1].valence, trajectory[i].valence))
      arousalChange(i) == RAbs(RSub(trajectory[i + 1].arousal, trajectory[i].arousal))
      IsShift(i) == RGt(valenceChange(i), threshold) \/ RGt(arousalChange(i), threshold)
      Shift(i)   ==
        [time      |-> trajectory[i + 1].time,
         type      |-> IF RGt(valenceChange(i), arousalChange(i))
                       THEN "valence" ELSE "arousal",
         magnitude |-> RMax(valenceChange(i), arousalChange(i)),
         from      |-> [valence |-> trajectory[i].valence,
                        arousal |-> trajectory[i].arousal],
         to        |-> [valence |-> trajectory[i + 1].valence,
                        arousal |-> trajectory[i + 1].arousal]]
  IN  Collect(FrameRange(1, Len(trajectory)), IsShift, Shift)

calculatePsychologicalDescriptors(danceability, energy, tempo, sampleRate, hopSize) ==
  LET frameDuration == RDiv(Num(hopSize), Num(sampleRate))
      maxFrames  == Max2(LengthOrZero(danceability),
                         Max2(LengthOrZero(energy), LengthOrZero(tempo)))
      trajectory == [k \in 1..maxFrames |->
                       TrajectoryPoint(danceability, energy, tempo, k - 1, frameDuration)]
  IN  Returned(
        [overallValence      |-> OverallOf([k \in DOMAIN trajectory |-> trajectory[k].valence]),
         overallArousal      |-> OverallOf([k \in DOMAIN trajectory |-> trajectory[k].arousal]),
         emotionalTrajectory |-> trajectory,
         paradigmShifts      |-> detectParadigmShifts(trajectory)])

-----------------------------------------------------------------------------
(* analyzeSectionMetadata and analyzeLoopMetadata                          *)

\* Math.floor of a finite number
Floor(x) == x.n \div x.d

\* arr.slice(startFrame, endFrame)
Slice(arr, startFrame, endFrame) == SubSeq(arr, startFrame + 1, Min2(endFrame, Len(arr)))

\* series?.slice(startFrame, endFrame) || []
SliceOrEmpty(series, startFrame, endFrame) ==
  IF series.present THEN Slice(series.v, startFrame, endFrame) ELSE <<>>

\* series?.slice(startFrame, endFrame)
SliceIfPresent(series, startFrame, endFrame) ==
  IF series.present THEN Given(Slice(series.v, startFrame, endFrame)) ELSE Absent

\* reduce((sum, e) => sum + (typeof e === 'object' ? e.value || 0 : e), 0) / length
MeanEnergy(energy) ==
  IF Len(energy) > 0
  THEN RDiv(RSum([k \in DOMAIN energy |-> EntryValue(energy[k])]), Num(Len(energy)))
  ELSE Rat(5, 10)

\* t.bpm || 120: a number has no bpm property
BpmOrDefault(t) == IF t.kind = "obj" /\ t.v # 0 THEN Num(t.v) ELSE Num(120)

inferKey(harmony) ==
  IF ~harmony.hasChords THEN "unknown" ELSE "C major"

analyzeSectionMetadata(section, features, sampleRate, hopSize) ==
  LET frameDuration == RDiv(Num(hopSize), Num(sampleRate))
      startFrame == Floor(RDiv(section.start, frameDuration))
      endFrame   == Floor(RDiv(section.end, frameDuration))
      energy  == SliceOrEmpty(features.energy, startFrame, endFrame)
      tempo   == SliceOrEmpty(features.tempo, startFrame, endFrame)
      harmony == SliceOrEmpty(features.harmony, startFrame, endFrame)
      melody  == SliceOrEmpty(features.melody, startFrame, endFrame)
  IN  [bpm    |-> IF Len(tempo) > 0
                  THEN RDiv(RSum([k \in DOMAIN tempo |-> BpmOrDefault(tempo[k])]),
                            Num(Len(tempo)))
                  ELSE Num(120),
       key    |-> IF Len(harmony) > 0 THEN inferKey(harmony[1]) ELSE "unknown",
       energy |-> MeanEnergy(energy),
       psychological |->
         calculatePsychologicalDescriptors(
           SliceIfPresent(features.danceability, startFrame, endFrame),
           Given(energy), Given(tempo), sampleRate, hopSize).value,
       motifs   |-> extractMotifs(Given(melody), Given(harmony), 1).value,
       quotes   |-> detectQuotes(Given(melody), Given(harmony)).value,
       storyArc |-> analyzeStoryArc(Given(melody), Given(harmony), sampleRate, hopSize).value]

\* h.chords?.[0] || 'unknown'
FirstChord(h) == IF h.hasChords /\ Len(h.chords) > 0 THEN h.chords[1] ELSE "unknown"

\* filter((v, i, a) => a.indexOf(v) === i): the first occurrence of each value
RECURSIVE FirstOccurrences(_)
FirstOccurrences(arr) ==
  IF arr = <<>> THEN <<>>
  ELSE LET front == FirstOccurrences(SubSeq(arr, 1, Len(arr) - 1))
           last  == arr[Len(arr)]
       IN  IF \E k \in DOMAIN front : front[k] = last THEN front ELSE Append(front, last)

analyzeLoopMetadata(loop, features, sampleRate, hopSize) ==
  LET frameDuration == RDiv(Num(hopSize), Num(sampleRate))
      startFrame == Floor(RDiv(loop.start, frameDuration))
      endFrame   == Floor(RDiv(loop.end, frameDuration))
      energy  == SliceOrEmpty(features.energy, startFrame, endFrame)
      harmony == SliceOrEmpty(features.harmony, startFrame, endFrame)
      psychological ==
        calculatePsychologicalDescriptors(
          SliceIfPresent(features.danceability, startFrame, endFrame),
          Given(energy),
          SliceIfPresent(features.tempo, startFrame, endFrame),
          sampleRate, hopSize).value
  IN  [energy  |-> MeanEnergy(energy),
       harmony |-> FirstOccurrences([k \in DOMAIN harmony |-> FirstChord(harmony[k])]),
       psychological |-> [valence |-> psychological.overallValence,
                          arousal |-> psychological.overallArousal]]

-----------------------------------------------------------------------------
(* generateEnhancedMetadata (audio-handler.js)                             *)

\* one entry of beatsDetection: {ticks: [...]}, or an entry without ticks
Ticks(ticks) == [hasTicks |-> TRUE, ticks |-> ticks]

NoTicks == [hasTicks |-> FALSE, ticks |-> <<>>]

\* series || []
OrEmpty(series) == IF series.present THEN series ELSE Given(<<>>)

\* data.chords ? [data.chords] : []
ChordsAsHarmony(chords) == IF chords.present THEN Given(<<chords.v>>) ELSE Given(<<>>)

\* allBeats: the ticks of every entry that has some, in order
AllBeats(beatsDetection) ==
  Flatten([k \in DOMAIN beatsDetection |->
             IF beatsDetection[k].hasTicks THEN beatsDetection[k].ticks ELSE <<>>])

\* [...new Set(allBeats)].sort((a, b) => a - b)
UniqueBeats(allBeats) == SortedSeq({allBeats[k] : k \in DOMAIN allBeats})

\* the beat markers of a non-empty beat series
BeatMarkers(uniqueBeats) ==
  LET intervals    == [i \in 1..(Len(uniqueBeats) - 1) |->
                         BeatTime(uniqueBeats[i + 1] - uniqueBeats[i])]
      avgInterval  == RDiv(RSum(intervals), Num(Len(intervals)))
      estimatedBPM == RDiv(Num(60), avgInterval)
  IN  [bpm        |-> estimatedBPM,
       beats      |-> uniqueBeats,
       confidence |-> Rat(85, 100),
       totalBeats |-> Len(uniqueBeats)]

\* beatMarkers || {bpm: 120, beats: [], confidence: 0, totalBeats: 0}
DefaultBeatMarkers ==
  [bpm |-> Num(120), beats |-> <<>>, confidence |-> Num(0), totalBeats |-> 0]

\* a number that counts as false: 0 and NaN
FalsyNumber(x) == IsNaN(x) \/ x = Num(0)

\* x || 120 on a number
NumberOr120(x) == IF FalsyNumber(x) THEN Num(120) ELSE x

\* the object returned by the catch block
DefaultDocument ==
  [song |-> [duration |-> Num(0),
             bpm      |-> Num(120),
             key      |-> "unknown",
             storyArc |-> [tension |-> <<>>, release |-> <<>>,
                           narrativeStructure |-> "unknown"],
             psychological |-> [overallValence      |-> Rat(5, 10),
                                overallArousal      |-> Rat(5, 10),
                                emotionalTrajectory |-> <<>>,
                                paradigmShifts      |-> <<>>],
             motifs   |-> <<>>,
             quotes   |-> <<>>],
   sections    |-> <<>>,
   loops       |-> <<>>,
   beatMarkers |-> DefaultBeatMarkers]

\* {...section, metadata: sectionMetadata}
WithSectionMetadata(sections, features, sampleRate, hopSize) ==
  [k \in DOMAIN sections |->
     [sections[k] EXCEPT
        !.metadata = analyzeSectionMetadata(sections[k], features, sampleRate, hopSize)]]

\* {...loop, metadata: loopMetadata}
WithLoopMetadata(loops, features, sampleRate, hopSize) ==
  [k \in DOMAIN loops |->
     [id        |-> loops[k].id,
      start     |-> loops[k].start,
      end       |-> loops[k].end,
      length    |-> loops[k].length,
      type      |-> loops[k].type,
      startBeat |-> loops[k].startBeat,
      endBeat   |-> loops[k].endBeat,
      metadata  |-> analyzeLoopMetadata(loops[k], features, sampleRate, hopSize)]]

\* the try block: the outcome of the first helper that does not return, or
\* the compiled document
MetadataTryBlock(data, sampleRate, hopSize) ==
  LET features == [energy       |-> OrEmpty(data.complexity),
                   tempo        |-> OrEmpty(data.bpm),
                   harmony      |-> ChordsAsHarmony(data.chords),
                   timbre       |-> OrEmpty(data.mfcc),
                   melody       |-> OrEmpty(data.pitchMelody),
                   danceability |-> OrEmpty(data.danceability)]
      uniqueBeats == UniqueBeats(AllBeats(OrEmpty(data.beatsDetection).v))
      hasBeats    == Len(uniqueBeats) > 0
      loopPoints  == IF hasBeats
                     THEN generateLoopPoints(Given(uniqueBeats), <<4, 8, 16>>)
                     ELSE Returned(<<>>)
      sections    == detectSongSections(features, sampleRate, hopSize)
      motifs      == extractMotifs(data.pitchMelody, features.harmony, 2)
      quotes      == detectQuotes(data.pitchMelody, features.harmony)
      storyArc    == analyzeStoryArc(data.pitchMelody, features.harmony, sampleRate, hopSize)
      psychological ==
        calculatePsychologicalDescriptors(data.danceability, data.complexity, data.bpm,
                                          sampleRate, hopSize)
      songDuration == RMul(Num(LengthOrZero(data.fft)), RDiv(Num(hopSize), Num(sampleRate)))
  IN  IF loopPoints.status # "returned" THEN loopPoints
      ELSE IF sections.status # "returned" THEN sections
      ELSE Returned(
        [song |-> [duration |-> songDuration,
                   bpm      |-> IF hasBeats THEN NumberOr120(BeatMarkers(uniqueBeats).bpm)
                                ELSE Num(120),
                   key      |-> "unknown",
                   storyArc |-> storyArc.value,
                   psychological |-> psychological.value,
                   motifs   |-> motifs.value,
                   quotes   |-> quotes.value],
         sections    |-> WithSectionMetadata(sections.value, features, sampleRate, hopSize),
         loops       |-> WithLoopMetadata(loopPoints.value, features, sampleRate, hopSize),
         beatMarkers |-> IF hasBeats THEN BeatMarkers(uniqueBeats) ELSE DefaultBeatMarkers])

\* catch (error): the default document is returned instead of the error
CatchAll(outcome) ==
  IF outcome.status = "raised" THEN Returned(DefaultDocument) ELSE outcome

generateEnhancedMetadata(data, sampleRate, hopSize) ==
  CatchAll(MetadataTryBlock(data, sampleRate, hopSize))

-----------------------------------------------------------------------------
(* The analysis of the POST / handler (index.js)                           *)

\* let chordsArray = []: nothing is ever pushed to it
chordsArray == Given(<<>>)

\* keyArray.length > 0 ? keyArray[0].key || 'unknown' : 'unknown'
FirstKey(keyArray) ==
  IF Len(keyArray) > 0 /\ keyArray[1] # "" THEN keyArray[1] ELSE "unknown"

\* bpmArray.length > 0 ? bpmArray[0].bpm || 120 : 120
FirstBpm(bpmArray) ==
  IF Len(bpmArray) > 0 THEN BpmOrDefault(bpmArray[1]) ELSE Num(120)

\* the enhanced analysis of the readFile callback, from the per-frame arrays:
\* the outcome of the first helper outside the try block that does not
\* return, or the compiled document
PostAnalysisBlock(frames) ==
  LET sampleRate == 44100
      hopSize    == 512
      features == [energy       |-> Given(frames.dynamicComplexityArray),
                   tempo        |-> Given(frames.bpmArray),
                   harmony      |-> chordsArray,
                   timbre       |-> Given(frames.mfccArray),
                   melody       |-> Given(frames.pitchMelodyArray),
                   danceability |-> Given(frames.danceabilityArray)]
      uniqueBeats == UniqueBeats(AllBeats(frames.beatsDetectionArray))
      hasBeats    == Len(uniqueBeats) > 0
      loopOutcome == IF hasBeats
                     THEN generateLoopPoints(Given(uniqueBeats), <<4, 8, 16>>)
                     ELSE Returned(<<>>)
      \* catch (error): the error is logged and loopPoints stays []
      loopPoints  == IF loopOutcome.status = "returned" THEN loopOutcome.value ELSE <<>>
      sections    == detectSongSections(features, sampleRate, hopSize)
      motifs      == extractMotifs(features.melody, chordsArray, 2)
      quotes      == detectQuotes(features.melody, chordsArray)
      storyArc    == analyzeStoryArc(features.melody, chordsArray, sampleRate, hopSize)
      psychological ==
        calculatePsychologicalDescriptors(features.danceability, features.energy,
                                          features.tempo, sampleRate, hopSize)
      songDuration == RDiv(Num(frames.totalFrames * hopSize), Num(sampleRate))
  IN  IF loopOutcome.status = "diverged" THEN Diverged
      ELSE IF sections.status # "returned" THEN sections
      ELSE Returned(
        [song |-> [duration |-> songDuration,
                   bpm      |-> IF hasBeats /\ ~FalsyNumber(BeatMarkers(uniqueBeats).bpm)
                                THEN BeatMarkers(uniqueBeats).bpm
                                ELSE FirstBpm(frames.bpmArray),
                   key      |-> FirstKey(frames.keyArray),
                   storyArc |-> storyArc.value,
                   psychological |-> psychological.value,
                   motifs   |-> motifs.value,
                   quotes   |-> quotes.value],
         sections    |-> WithSectionMetadata(sections.value, features, sampleRate, hopSize),
         loops       |-> WithLoopMetadata(loopPoints, features, sampleRate, hopSize),
         beatMarkers |-> IF hasBeats THEN BeatMarkers(uniqueBeats) ELSE DefaultBeatMarkers])

-----------------------------------------------------------------------------
(* The HTTP side of the POST / handler (index.js)                          *)

\* http holds the request (req), the calls of res.send in order (sent), the
\* upload streams that have neither finished nor failed (open) and the
\* counter j of the finish callbacks
NoRequest == [req |-> "none", sent |-> <<>>, open |-> {}, j |-> 0]

\* a request whose body.fileUrl is missing, an http address or an https one
RequestOf(fileUrl) == [req |-> fileUrl, sent |-> <<>>, open |-> {}, j |-> 0]

\* res.status(code).send({success, ...})
Send(h, code, success) ==
  [h EXCEPT !.sent = Append(@, [status |-> code, success |-> success])]

\* !fileUrl || !fileUrl?.startsWith('https')
FileUrlRequired(fileUrl) == fileUrl # "https"

\* let keys = Object.keys(data)
UploadKeys == 1..MaxUploadKeys

-----------------------------------------------------------------------------
(* Inputs                                                                  *)

SeqsUpTo(S, n) == UNION {[1..k -> S] : k \in 0..n}

\* beat times off the whole second, in tenths
FractionalBeats == {3, 4, 6, 9}

\* beat series: strictly increasing, duplicate free, on whole seconds or off
\* them
BeatSeries ==
  {SortedSeq({10 * t : t \in S}) : S \in SUBSET (0..MaxBeatTime)}
    \cup {SortedSeq(S) : S \in SUBSET FractionalBeats}

BeatInputs == {Absent} \cup {Given(b) : b \in BeatSeries}

LoopLengthValues == (-1)..MaxLoopLen

LoopLengthInputs == SeqsUpTo(LoopLengthValues, MaxLoopLengths)

\* energy entries: 0.1, 0.35, 0.9 as numbers and {value: 2.0}
EnergyEntries == {NumEntry(10), NumEntry(35), NumEntry(90), ObjEntry(200)}

EnergyInputs == {Absent} \cup {Given(e) : e \in SeqsUpTo(EnergyEntries, MaxFrames)}

\* a series of MaxFrames frames that alternates between a and b
Alternating(a, b) == [j \in 1..MaxFrames |-> IF j % 2 = 1 THEN a ELSE b]

TempoInputs == {Absent, Given(Alternating(ObjEntry(100), ObjEntry(140)))}

HarmonyInputs ==
  {Absent, Given(Alternating([chords |-> <<"C", "G">>], [chords |-> <<"Am">>]))}

TimbreInputs ==
  {Absent, Given(Alternating([mfcc |-> <<0, 0>>], [mfcc |-> <<3, 4>>]))}

FeatureInputs ==
  [energy : EnergyInputs, tempo : TempoInputs,
   harmony : HarmonyInputs, timbre : TimbreInputs]

\* sampleRate and hopSize: frames of 1 s, 2 s and 3 s
RateInputs == {[sampleRate |-> 1, hopSize |-> h] : h \in 1..3}

\* melody frames: two pitch arrays that agree on their first 5 values, and a
\* frame without pitch
MelodyFrames ==
  {MelodyFrame(<<1, 2, 3, 4, 5, 6>>), MelodyFrame(<<1, 2, 3, 4, 5, 7>>), BareFrame}

\* harmony frames: two chord arrays that agree on their first 4 labels, and a
\* short one
HarmonyFrames ==
  {HarmonyFrame(<<"C", "Am", "F", "G", "C">>), HarmonyFrame(<<"C", "Am", "F", "G", "D">>),
   HarmonyFrame(<<"C">>)}

Repeated(frame, n) == [j \in 1..n |-> frame]

\* a melody of 2k frames whose second half repeats its first half
TwoHalves(k) == [j \in 1..(2 * k) |-> MelodyFrame(<<(j - 1) % k>>)]

\* one series is drawn freely, the other one is absent, empty or constant;
\* and a melody of two equal halves of 4 frames
MotifInputs ==
  [pitchMelody    : {Absent} \cup {Given(x) : x \in SeqsUpTo(MelodyFrames, MaxMotifFrames)},
   chords         : {Absent, Given(Repeated(HarmonyFrame(<<"C">>), MaxMotifFrames))},
   minOccurrences : 1..MaxMinOccurrences]
  \cup
  [pitchMelody    : {Given(<<>>), Given(Repeated(MelodyFrame(<<440>>), MaxMotifFrames))},
   chords         : {Given(x) : x \in SeqsUpTo(HarmonyFrames, MaxMotifFrames)},
   minOccurrences : 1..MaxMinOccurrences]
  \cup
  [pitchMelody    : {Given(TwoHalves(4))},
   chords         : {Absent},
   minOccurrences : 1..MaxMinOccurrences]

\* a melody of n frames that repeats every 10 frames: the 8-frame pattern at
\* frame 0 recurs at frames 10 and 20
PeriodicMelody(n) == [j \in 1..n |-> MelodyFrame(<<(j - 1) % 10>>)]

QuoteInputs ==
  [pitchMelody : {Absent}
                 \cup {Given(x) : x \in SeqsUpTo({MelodyFrame(<<440>>), BareFrame},
                                                  MaxQuoteFrames)}
                 \cup {Given(PeriodicMelody(n)) : n \in 28..29}
                 \cup {Given(TwoHalves(8))},
   chords      : {Absent, Given(<<>>)}]
  \cup
  [pitchMelody : {Given(<<>>)},
   chords      : {Given(x) : x \in SeqsUpTo({HarmonyFrame(<<"C">>), HarmonyFrame(<<"G">>)},
                                            MaxQuoteFrames)}]

\* danceability entries: 0, -0.5, 0.35, 1.5 and {value: 0.65}
DanceabilityEntries ==
  {NumEntry(0), NumEntry(-50), NumEntry(35), NumEntry(150), ObjEntry(65)}

\* energy entries of the psychological profile: 0, 0.2 and {value: 2.0}
ArousalEnergyEntries == {NumEntry(0), NumEntry(20), ObjEntry(200)}

\* tempo entries: {bpm: 100}, {bpm: 0} and the number 240
TempoEntries == {ObjEntry(100), ObjEntry(0), NumEntry(240)}

SeriesInputs(entries) == {Absent} \cup {Given(x) : x \in SeqsUpTo(entries, MaxPsychFrames)}

\* the default sampleRate and hopSize
DefaultRate == [sampleRate |-> 44100, hopSize |-> 512]

\* every combination of short series, and one frame more of danceability with
\* the energy absent or steady and then rising, and no tempo
PsychInputs ==
  [danceability : SeriesInputs(DanceabilityEntries),
   energy       : SeriesInputs(ArousalEnergyEntries),
   tempo        : SeriesInputs(TempoEntries),
   rate         : {DefaultRate}]
  \cup
  [danceability : {Given(x) : x \in [1..(MaxPsychFrames + 1) -> DanceabilityEntries]},
   energy       : {Absent, Given(<<NumEntry(20), NumEntry(20), ObjEntry(200)>>)},
   tempo        : {Absent},
   rate         : {DefaultRate}]

\* story frames: pitch arrays of variance 0, 1/2 (the peak threshold itself),
\* 1 and 4 (the last one with a 0 that is filtered out), a pitch array that
\* holds only a 0, an empty pitch array, and a frame without pitch
StoryFrames ==
  {MelodyFrame(<<1>>), MelodyFrame(<<1, 2, 2, 3>>), MelodyFrame(<<1, 3>>),
   MelodyFrame(<<0, 1, 5>>), MelodyFrame(<<0>>), MelodyFrame(<<>>), BareFrame}

\* longer melodies of calm and tense frames, enough for three tension peaks
LongStoryFrames == {MelodyFrame(<<1>>), MelodyFrame(<<1, 3>>)}

StoryInputs ==
  [pitchMelody : {Absent} \cup {Given(x) : x \in SeqsUpTo(StoryFrames, MaxStoryFrames)}
                   \cup {Given(x) : x \in [1..(MaxStoryFrames + 2) -> LongStoryFrames]},
   chords      : {Absent, Given(<<>>)},
   rate        : {DefaultRate}]

\* beatsDetection: missing, without ticks, a single beat, equally spaced
\* beats that two entries report with a duplicate, and unsorted beats
BeatsDetectionInputs ==
  {Absent,
   Given(<<NoTicks>>),
   Given(<<Ticks(<<20>>)>>),
   Given(<<Ticks(<<0, 10, 20>>), NoTicks, Ticks(<<20, 30, 40>>)>>),
   Given(<<Ticks(<<50, 0>>), Ticks(<<10, 30, 40, 60>>)>>)}

\* complexity: missing, a series that changes level, and a series with a null
ComplexityInputs ==
  {Absent,
   Given(<<NumEntry(10), NumEntry(10), NumEntry(90), NumEntry(90), NumEntry(35)>>),
   Given(<<NumEntry(90), NullEntry>>)}

\* the analysis results handed to generateEnhancedMetadata
MetadataInputs ==
  [complexity     : ComplexityInputs,
   bpm            : TempoInputs,
   chords         : {Absent, Given(HarmonyFrame(<<"C", "G">>))},
   mfcc           : TimbreInputs,
   pitchMelody    : {Absent, Given(Repeated(MelodyFrame(<<1, 2, 3, 4, 5, 6>>), MaxMotifFrames))},
   danceability   : {Absent, Given(<<NumEntry(150), ObjEntry(65)>>)},
   beatsDetection : BeatsDetectionInputs,
   fft            : {Absent, Given(Repeated(0, MaxFrames))},
   rate           : RateInputs]

\* the per-frame arrays the POST / handler has filled before its analysis
PostInputs ==
  [dynamicComplexityArray : {<<>>, <<ObjEntry(90), ObjEntry(10)>>, <<ObjEntry(90), NullEntry>>},
   bpmArray               : {<<>>, <<ObjEntry(100), ObjEntry(0)>>},
   mfccArray              : {<<>>, <<[mfcc |-> <<0, 0>>], [mfcc |-> <<3, 4>>]>>},
   pitchMelodyArray       : {<<>>, Repeated(MelodyFrame(<<1, 2, 3, 4, 5, 6>>), MaxMotifFrames)},
   danceabilityArray      : {<<>>, <<ObjEntry(65), ObjEntry(0)>>},
   keyArray               : {<<>>, <<"C">>, <<"">>},
   beatsDetectionArray    : {<<>>,
                             <<Ticks(<<>>)>>,
                             <<Ticks(<<20>>)>>,
                             <<Ticks(<<0, 10, 20>>), Ticks(<<20, 30, 40>>)>>,
                             <<Ticks(<<50, 0>>), Ticks(<<10, 30, 40, 60>>)>>},
   totalFrames            : {0, MaxFrames}]

\* the requests of a session: analysis results with and without beats,
\* sections and motifs, and per-frame arrays of the POST / handler
SessionInputs ==
  {[op |-> "generateEnhancedMetadata", args |-> a] :
     a \in {x \in MetadataInputs :
              /\ x.rate.hopSize = 1
              /\ x.bpm = Absent /\ x.mfcc = Absent /\ x.fft = Absent
              /\ x.chords.present /\ x.danceability.present
              /\ x.complexity.present
              /\ x.pitchMelody.present = (x.beatsDetection = Absent)
              /\ x.beatsDetection \in {Absent, Given(<<Ticks(<<50, 0>>), Ticks(<<10, 30, 40, 60>>)>>)}}}
  \cup
  {[op |-> "post", args |-> a] :
     a \in {x \in PostInputs :
              /\ x.totalFrames = MaxFrames /\ x.keyArray = <<"C">>
              /\ x.bpmArray # <<>> /\ x.mfccArray = <<>> /\ x.danceabilityArray = <<>>
              /\ x.dynamicComplexityArray = <<ObjEntry(90), ObjEntry(10)>>
              /\ x.pitchMelodyArray # <<>>
              /\ x.beatsDetectionArray \in {<<>>, <<Ticks(<<50, 0>>), Ticks(<<10, 30, 40, 60>>)>>}}}

\* harmony frames of a loop: one chord, another chord, two chords of which
\* the first one is known already, and a frame whose chord list is empty
LoopHarmonyFrames ==
  {HarmonyFrame(<<"C">>), HarmonyFrame(<<"G">>), HarmonyFrame(<<"C", "Am">>),
   HarmonyFrame(<<>>)}

\* loops between whole seconds (the end may lie beyond the series), over
\* frames of 1 s and of 2 s
LoopMetadataInputs ==
  [loop     : {[start |-> Num(w[1]), end |-> Num(w[2])] :
                 w \in {x \in (0..MaxHarmonyFrames) \X (1..(MaxHarmonyFrames + 1)) :
                           x[1] < x[2]}},
   features : [energy       : {Absent, Given(<<NumEntry(20), ObjEntry(90)>>)},
               harmony      : {Absent} \cup
                              {Given(x) : x \in SeqsUpTo(LoopHarmonyFrames, MaxHarmonyFrames)},
               danceability : {Absent},
               tempo        : {Absent}],
   rate     : {[sampleRate |-> 1, hopSize |-> h] : h \in 1..2}]

\* the requests of the POST / handler: the fileUrl of the body, and the
\* per-frame arrays that the analysis of the downloaded file fills (silence,
\* a short song, and a song with a null complexity entry)
RequestFrames ==
  {x \in PostInputs :
     /\ x.keyArray = <<>> /\ x.mfccArray = <<>> /\ x.danceabilityArray = <<>>
     /\ x.bpmArray = <<>> /\ x.pitchMelodyArray = <<>>
     /\ \/ x.totalFrames = 0 /\ x.dynamicComplexityArray = <<>>
                              /\ x.beatsDetectionArray = <<>>
        \/ x.totalFrames = MaxFrames /\ x.dynamicComplexityArray # <<>>
                                     /\ x.beatsDetectionArray = <<Ticks(<<20>>)>>}

FileUrls == {"missing", "http", "https"}

-----------------------------------------------------------------------------
(* Invocations                                                             *)
(* An invocation starts with its arguments bound (pc = "call"); the one    *)
(* step of the helper computes its outcome (pc = "done").  The helpers     *)
(* keep no state between invocations; log records the invocations that    *)
(* were completed before the current one.                                  *)

Pending == [status |-> "pending", value |-> <<>>]

InitLoops ==
  /\ pc = "call"
  /\ op = "generateLoopPoints"
  /\ args \in [beats : BeatInputs, loopLengths : LoopLengthInputs]
  /\ ret = Pending
  /\ log = <<>>
  /\ http = NoRequest

InitSections ==
  /\ pc = "call"
  /\ op = "detectSongSections"
  /\ args \in [features : FeatureInputs, rate : RateInputs]
  /\ ret = Pending
  /\ log = <<>>
  /\ http = NoRequest

InitMotifs ==
  /\ pc = "call"
  /\ op = "extractMotifs"
  /\ args \in MotifInputs
  /\ ret = Pending
  /\ log = <<>>
  /\ http = NoRequest

InitQuotes ==
  /\ pc = "call"
  /\ op = "detectQuotes"
  /\ args \in QuoteInputs
  /\ ret = Pending
  /\ log = <<>>
  /\ http = NoRequest

InitPsych ==
  /\ pc = "call"
  /\ op = "calculatePsychologicalDescriptors"
  /\ args \in PsychInputs
  /\ ret = Pending
  /\ log = <<>>
  /\ http = NoRequest

InitStory ==
  /\ pc = "call"
  /\ op = "analyzeStoryArc"
  /\ args \in StoryInputs
  /\ ret = Pending
  /\ log = <<>>
  /\ http = NoRequest

InitLoopMetadata ==
  /\ pc = "call"
  /\ op = "analyzeLoopMetadata"
  /\ args \in LoopMetadataInputs
  /\ ret = Pending
  /\ log = <<>>
  /\ http = NoRequest

InitMetadata ==
  /\ pc = "call"
  /\ op = "generateEnhancedMetadata"
  /\ args \in MetadataInputs
  /\ ret = Pending
  /\ log = <<>>
  /\ http = NoRequest

InitPost ==
  /\ pc = "call"
  /\ op = "post"
  /\ args \in PostInputs
  /\ ret = Pending
  /\ log = <<>>
  /\ http = NoRequest

InitRequest ==
  /\ pc = "request"
  /\ op = "post"
  /\ args \in RequestFrames
  /\ ret = Pending
  /\ log = <<>>
  /\ http \in {RequestOf(fileUrl) : fileUrl \in FileUrls}

InitSession ==
  /\ pc = "call"
  /\ \E request \in SessionInputs : op = request.op /\ args = request.args
  /\ ret = Pending
  /\ log = <<>>
  /\ http = NoRequest

CallGenerateLoopPoints ==
  /\ pc = "call"
  /\ op = "generateLoopPoints"
  /\ ret' = generateLoopPoints(args.beats, args.loopLengths)
  /\ pc' = "done"
  /\ UNCHANGED <<op, args, log, http>>

CallDetectSongSections ==
  /\ pc = "call"
  /\ op = "detectSongSections"
  /\ ret' = detectSongSections(args.features, args.rate.sampleRate, args.rate.hopSize)
  /\ pc' = "done"
  /\ UNCHANGED <<op, args, log, http>>

CallExtractMotifs ==
  /\ pc = "call"
  /\ op = "extractMotifs"
  /\ ret' = extractMotifs(args.pitchMelody, args.chords, args.minOccurrences)
  /\ pc' = "done"
  /\ UNCHANGED <<op, args, log, http>>

CallDetectQuotes ==
  /\ pc = "call"
  /\ op = "detectQuotes"
  /\ ret' = detectQuotes(args.pitchMelody, args.chords)
  /\ pc' = "done"
  /\ UNCHANGED <<op, args, log, http>>

CallCalculatePsychologicalDescriptors ==
  /\ pc = "call"
  /\ op = "calculatePsychologicalDescriptors"
  /\ ret' = calculatePsychologicalDescriptors(args.danceability, args.energy, args.tempo,
                                               args.rate.sampleRate, args.rate.hopSize)
  /\ pc' = "done"
  /\ UNCHANGED <<op, args, log, http>>

CallAnalyzeStoryArc ==
  /\ pc = "call"
  /\ op = "analyzeStoryArc"
  /\ ret' = analyzeStoryArc(args.pitchMelody, args.chords,
                            args.rate.sampleRate, args.rate.hopSize)
  /\ pc' = "done"
  /\ UNCHANGED <<op, args, log, http>>

CallGenerateEnhancedMetadata ==
  /\ pc = "call"
  /\ op = "generateEnhancedMetadata"
  /\ ret' = generateEnhancedMetadata(args, args.rate.sampleRate, args.rate.hopSize)
  /\ pc' = "done"
  /\ UNCHANGED <<op, args, log, http>>

\* the analysis of the readFile callback of app.post('/'): an error that
\* leaves it is not caught by any handler
PostAnalysis ==
  /\ pc = "call"
  /\ op = "post"
  /\ ret' = PostAnalysisBlock(args)
  /\ pc' = "done"
  /\ UNCHANGED <<op, args, log, http>>

CallAnalyzeLoopMetadata ==
  /\ pc = "call"
  /\ op = "analyzeLoopMetadata"
  /\ ret' = Returned(analyzeLoopMetadata(args.loop, args.features,
                                          args.rate.sampleRate, args.rate.hopSize))
  /\ pc' = "done"
  /\ UNCHANGED <<op, args, log, http>>

\* app.post('/'): the fileUrl is checked and the download is started
ReceiveRequest ==
  /\ pc = "request"
  /\ IF FileUrlRequired(http.req)
     THEN http' = Send(http, 400, FALSE) /\ pc' = "end"
     ELSE http' = http /\ pc' = "download"
  /\ UNCHANGED <<op, args, ret, log>>

\* writeStream.on('finish'): the file is read
DownloadFinished ==
  /\ pc = "download"
  /\ pc' = "readFile"
  /\ UNCHANGED <<op, args, ret, log, http>>

\* writeStream.on('error')
DownloadFailed ==
  /\ pc = "download"
  /\ http' = Send(http, 500, FALSE)
  /\ pc' = "end"
  /\ UNCHANGED <<op, args, ret, log>>

\* the readFile callback with err set
ReadFileFailed ==
  /\ pc = "readFile"
  /\ http' = Send(http, 500, FALSE)
  /\ pc' = "end"
  /\ UNCHANGED <<op, args, ret, log>>

\* the readFile callback with the buffer: the analysis is next
ReadFileDone ==
  /\ pc = "readFile"
  /\ pc' = "call"
  /\ UNCHANGED <<op, args, ret, log, http>>

\* for (var v of keys): every upload stream is opened and ended, then
\* return res.send({ success: true, result })
StartUploads ==
  /\ pc = "done"
  /\ op = "post"
  /\ http.req # "none"
  /\ ret.status = "returned"
  /\ http' = [Send(http, 200, TRUE) EXCEPT !.open = UploadKeys]
  /\ pc' = "uploading"
  /\ UNCHANGED <<op, args, ret, log>>

\* blobStream.on('finish'): j++, and res.send once j == keys.length
UploadFinished ==
  /\ pc = "uploading"
  /\ \E v \in http.open :
       LET counted == [http EXCEPT !.open = @ \ {v}, !.j = @ + 1]
       IN  http' = IF counted.j = MaxUploadKeys THEN Send(counted, 200, TRUE)
                   ELSE counted
  /\ UNCHANGED <<pc, op, args, ret, log>>

\* blobStream.on('error'): the callback throws, nothing is sent or counted
UploadFailed ==
  /\ pc = "uploading"
  /\ \E v \in http.open : http' = [http EXCEPT !.open = @ \ {v}]
  /\ UNCHANGED <<pc, op, args, ret, log>>

\* the engine is invoked again, after the current invocation has ended
NextInvocation ==
  /\ pc = "done"
  /\ [op |-> op, args |-> args] \in SessionInputs
  /\ Len(log) < MaxInvocations - 1
  /\ log' = Append(log, [op |-> op, args |-> args, ret |-> ret])
  /\ \E request \in SessionInputs : op' = request.op /\ args' = request.args
  /\ pc' = "call"
  /\ ret' = Pending
  /\ UNCHANGED http

NextLoops == CallGenerateLoopPoints

SpecLoops == InitLoops /\ [][NextLoops]_vars

NextSections == CallDetectSongSections

SpecSections == InitSections /\ [][NextSections]_vars

NextPatterns == CallExtractMotifs \/ CallDetectQuotes

SpecPatterns == (InitMotifs \/ InitQuotes) /\ [][NextPatterns]_vars

NextPsych == CallCalculatePsychologicalDescriptors

SpecPsych == InitPsych /\ [][NextPsych]_vars

NextStory == CallAnalyzeStoryArc

SpecStory == InitStory /\ [][NextStory]_vars

NextLoopMetadata == CallAnalyzeLoopMetadata

SpecLoopMetadata == InitLoopMetadata /\ [][NextLoopMetadata]_vars

\* the two orchestrating layers
NextOrchestration == CallGenerateEnhancedMetadata \/ PostAnalysis

SpecOrchestration == (InitMetadata \/ InitPost) /\ [][NextOrchestration]_vars

\* a session of successive invocations of the two layers
NextSession == CallGenerateEnhancedMetadata \/ PostAnalysis \/ NextInvocation

SpecSession == InitSession /\ [][NextSession]_vars

\* one request to the POST / handler, from its arrival to the last upload
NextRequest ==
  \/ ReceiveRequest
  \/ DownloadFinished
  \/ DownloadFailed
  \/ ReadFileFailed
  \/ ReadFileDone
  \/ PostAnalysis
  \/ StartUploads
  \/ UploadFinished
  \/ UploadFailed

SpecRequest == InitRequest /\ [][NextRequest]_vars

\* every helper, on every modelled input
Init ==
  \/ InitLoops \/ InitSections \/ InitMotifs \/ InitQuotes \/ InitPsych \/ InitStory
  \/ InitMetadata \/ InitPost \/ InitLoopMetadata \/ InitRequest

Next ==
  \/ CallGenerateLoopPoints
  \/ CallDetectSongSections
  \/ CallExtractMotifs
  \/ CallDetectQuotes
  \/ CallCalculatePsychologicalDescriptors
  \/ CallAnalyzeStoryArc
  \/ CallAnalyzeLoopMetadata
  \/ CallGenerateEnhancedMetadata
  \/ PostAnalysis
  \/ NextInvocation
  \/ ReceiveRequest
  \/ DownloadFinished
  \/ DownloadFailed
  \/ ReadFileFailed
  \/ ReadFileDone
  \/ StartUploads
  \/ UploadFinished
  \/ UploadFailed

Spec == Init /\ [][Next]_vars

-----------------------------------------------------------------------------
(* Properties of generateLoopPoints                                        *)

IsLoopCall == pc = "done" /\ op = "generateLoopPoints"

AllPositive(s) == \A k \in DOMAIN s : s[k] > 0

PairwiseDistinct(s) == \A j, k \in DOMAIN s : j # k => s[j] # s[k]

LastBeat == args.beats.v[Len(args.beats.v)]

\* C3: for a strictly increasing beat series and positive loop lengths, every
\* returned loop ends at or before the last beat time and its length field is
\* one of the requested lengths.
C3_LoopsWithinBeats ==
  (IsLoopCall /\ AllPositive(args.loopLengths)) =>
     /\ ret.status = "returned"
     /\ \A j \in DOMAIN ret.value :
          /\ RLe(ret.value[j].end, BeatTime(LastBeat))
          /\ \E k \in DOMAIN args.loopLengths :
               ret.value[j].length = args.loopLengths[k]

\* a candidate loop was dropped by the guard while another one was returned
C3_Witness ==
  /\ IsLoopCall
  /\ AllPositive(args.loopLengths)
  /\ ret.value # <<>>
  /\ \E k \in DOMAIN args.loopLengths :
       \E i \in 0..(Len(args.beats.v) - args.loopLengths[k] - 1) :
          /\ i % args.loopLengths[k] = 0
          /\ \A j \in DOMAIN ret.value :
                ~(ret.value[j].length = args.loopLengths[k] /\ ret.value[j].startBeat = i)

\* the startBeat values of the returned loops of one length
StartBeatsOf(length) ==
  {ret.value[j].startBeat : j \in {h \in DOMAIN ret.value : ret.value[h].length = length}}

\* C28: for a strictly increasing series of n beats and a positive loop length
\* L with n >= L+1, at least one loop of length L is returned, the loops of
\* length L start at the beats 0, L, 2L, ..., (c-1)L without a gap, and each
\* of them has start < end and endBeat = startBeat + L <= n-1.
C28_LoopsAtMultiples ==
  (IsLoopCall /\ args.beats.present /\ AllPositive(args.loopLengths)) =>
     \A k \in DOMAIN args.loopLengths :
        LET length == args.loopLengths[k]
            n      == Len(args.beats.v)
        IN  n >= length + 1 =>
              /\ ret.status = "returned"
              /\ \E c \in 1..n : StartBeatsOf(length) = {m * length : m \in 0..(c - 1)}
              /\ \A j \in DOMAIN ret.value :
                    ret.value[j].length = length =>
                       /\ RLt(ret.value[j].start, ret.value[j].end)
                       /\ ret.value[j].endBeat = ret.value[j].startBeat + length
                       /\ ret.value[j].endBeat <= n - 1

\* C4: no loops at all when beats is absent or has fewer than 2 entries, and
\* no loop of length L when there are fewer than L beats.
C4_InsufficientBeats ==
  IsLoopCall =>
     /\ (~args.beats.present \/ Len(args.beats.v) < 2) => ret = Returned(<<>>)
     /\ \A k \in DOMAIN args.loopLengths :
          Len(args.beats.v) < args.loopLengths[k] =>
             \A j \in DOMAIN ret.value : ret.value[j].length # args.loopLengths[k]

\* one requested length exceeds the number of beats, another one yields loops
C4_Witness ==
  /\ IsLoopCall
  /\ \E k \in DOMAIN args.loopLengths : Len(args.beats.v) < args.loopLengths[k]
  /\ ret.value # <<>>

\* C5 (as claimed): every returned loop starts at beats[startBeat] and ends at
\* the beat time beats[endBeat].
C5_BeatAligned ==
  (IsLoopCall /\ AllPositive(args.loopLengths)) =>
     \A j \in DOMAIN ret.value :
        /\ ret.value[j].start = BeatTime(args.beats.v[ret.value[j].startBeat + 1])
        /\ ret.value[j].endBeat + 1 \in DOMAIN args.beats.v
        /\ ret.value[j].end = BeatTime(args.beats.v[ret.value[j].endBeat + 1])

\* C6 (as claimed): no two returned loops share an id, and distinct entries
\* differ in (length, startBeat).
C6_IdsUnique ==
  IsLoopCall =>
     \A j, k \in DOMAIN ret.value :
        j # k => /\ ret.value[j].id # ret.value[k].id
                 /\ <<ret.value[j].length, ret.value[j].startBeat>> #
                    <<ret.value[k].length, ret.value[k].startBeat>>

\* C6 (amended): two returned loops share an id exactly when they have the
\* same (length, startBeat), and when the requested lengths are pairwise
\* distinct no two entries of the result share an id or a (length, startBeat).
C6_IdsUniquePerPair ==
  IsLoopCall =>
     \A j, k \in DOMAIN ret.value :
        /\ (ret.value[j].id = ret.value[k].id) <=>
              (<<ret.value[j].length, ret.value[j].startBeat>> =
               <<ret.value[k].length, ret.value[k].startBeat>>)
        /\ (PairwiseDistinct(args.loopLengths) /\ j # k) =>
              ret.value[j].id # ret.value[k].id

\* two distinct lengths were requested and one of them yields several loops
C6_Witness ==
  /\ IsLoopCall
  /\ PairwiseDistinct(args.loopLengths)
  /\ Len(args.loopLengths) = 2
  /\ \E j, k \in DOMAIN ret.value :
       /\ j # k
       /\ ret.value[j].length = ret.value[k].length
  /\ \E j, k \in DOMAIN ret.value : ret.value[j].length # ret.value[k].length

-----------------------------------------------------------------------------
(* Properties of detectSongSections                                        *)

IsSectionsCall == pc = "done" /\ op = "detectSongSections"

EnergyGiven == args.features.energy.present /\ Len(args.features.energy.v) > 0

\* hopSize / sampleRate
FrameDurationOfCall == RDiv(Num(args.rate.hopSize), Num(args.rate.sampleRate))

\* a 2-second window holds at least one frame
WindowHoldsFrames == RLe(FrameDurationOfCall, Num(2))

SectionTypes == {"intro", "verse", "chorus", "bridge", "outro"}

\* C1 (as claimed): for a non-empty energy series the returned sections
\* partition the track: the first starts at 0, the last ends at
\* energy.length * hopSize / sampleRate, they are in increasing order and each
\* section starts where the previous one ends.
C1_SectionsPartition ==
  (IsSectionsCall /\ EnergyGiven /\ ret.status = "returned") =>
     /\ ret.value # <<>>
     /\ ret.value[1].start = Num(0)
     /\ ret.value[Len(ret.value)].end =
          Rat(Len(args.features.energy.v) * args.rate.hopSize, args.rate.sampleRate)
     /\ \A j \in 2..Len(ret.value) :
          /\ RLt(ret.value[j - 1].start, ret.value[j].start)
          /\ ret.value[j].start = ret.value[j - 1].end

WindowStatsOfCall ==
  LET windows == WindowsFrom(args.features, 0, WindowSizeOf(FrameDurationOfCall))
  IN  [k \in DOMAIN windows |-> WindowStat(windows[k], FrameDurationOfCall)]

\* the windows i (0-based, from 1 up to the last one) that differ from window
\* i - 1 by the boundary test
ChangedWindows ==
  {i \in 1..(Len(WindowStatsOfCall) - 1) :
     IsBoundary(WindowStatsOfCall[i], WindowStatsOfCall[i + 1])}

\* C19 (as claimed): a boundary is flagged, and a new section begins, at every
\* window i from 1 up to and including the last window that passes the
\* boundary test against window i - 1, and at no other window; the number of
\* sections is one more than the number of these windows.
C19_BoundaryAtEveryChange ==
  (IsSectionsCall /\ EnergyGiven /\ ret.status = "returned") =>
     /\ Len(ret.value) = Cardinality(ChangedWindows) + 1
     /\ \A i \in 1..(Len(WindowStatsOfCall) - 1) :
          (i \in ChangedWindows) <=>
             (\E j \in DOMAIN ret.value : ret.value[j].start = WindowStatsOfCall[i + 1].start)

\* the mean of a statistic over the windows that lie within a section
MeanOverSpan(windowStats, section, Stat(_)) ==
  LET Within(w) == RLe(section.start, w.start) /\ RLe(w.end, section.end)
      within == SelectSeq(windowStats, Within)
  IN  RDiv(RSum([k \in DOMAIN within |-> Stat(within[k])]), Num(Len(within)))

\* the type and confidence the rules give, in their order
RuleOf(avgEnergy, energyVariance, isLast) ==
  CASE RGt(avgEnergy, Rat(7, 10)) /\ RLt(energyVariance, Rat(1, 10)) -> <<"chorus", Rat(8, 10)>>
    [] OTHER ->
  CASE RLt(avgEnergy, Rat(3, 10)) -> <<"intro", Rat(7, 10)>>
    [] OTHER ->
  CASE isLast /\ RLt(avgEnergy, Rat(4, 10)) -> <<"outro", Rat(7, 10)>>
    [] OTHER ->
  CASE RGt(energyVariance, Rat(3, 10)) -> <<"bridge", Rat(6, 10)>>
    [] OTHER -> <<"verse", Rat(5, 10)>>

\* C20: the type and confidence of each section are those of the first rule
\* that matches the averaged statistics of its span, in the order chorus/0.8,
\* intro/0.7, outro/0.7 (last span only), bridge/0.6, verse/0.5; so only the
\* last section can be an outro, and an outro has 0.3 <= avgEnergy < 0.4.
C20_ClassificationOrder ==
  (IsSectionsCall /\ ret.status = "returned") =>
     LET windowStats == WindowStatsOfCall
     IN  \A j \in DOMAIN ret.value :
        LET section   == ret.value[j]
            AvgEnergy(w) == w.avgEnergy
            Variance(w)  == w.energyVariance
            avgEnergy      == MeanOverSpan(windowStats, section, AvgEnergy)
            energyVariance == MeanOverSpan(windowStats, section, Variance)
        IN  /\ section.metadata.avgEnergy = avgEnergy
            /\ section.metadata.energyVariance = energyVariance
            /\ <<section.type, section.confidence>> =
                  RuleOf(avgEnergy, energyVariance, j = Len(ret.value))
            /\ section.type = "outro" =>
                  /\ j = Len(ret.value)
                  /\ RLe(Rat(3, 10), avgEnergy)
                  /\ RLt(avgEnergy, Rat(4, 10))

\* the last of several sections is an outro, an earlier section has an
\* average energy below 0.4 too and is a verse, and a last section with an
\* average energy below 0.3 would be an intro
C20_Witness ==
  /\ IsSectionsCall
  /\ Len(ret.value) >= 2
  /\ ret.value[Len(ret.value)].type = "outro"
  /\ \E j \in 1..(Len(ret.value) - 1) :
       /\ ret.value[j].type = "verse"
       /\ RLt(ret.value[j].metadata.avgEnergy, Rat(4, 10))

-----------------------------------------------------------------------------
(* Properties of extractMotifs and detectQuotes                            *)

IsMotifsCall == pc = "done" /\ op = "extractMotifs"

IsQuotesCall == pc = "done" /\ op = "detectQuotes"

SeriesTypes == {"melodic", "harmonic"}

\* the series a pattern type is mined from
SeriesOf(type) == IF type = "melodic" THEN args.pitchMelody.v ELSE args.chords.v

\* the canonical form of the full window of length k that starts at frame i
WindowPattern(type, i, k) == extractPattern(SeriesOf(type), i, k, type)

\* the scanned window starts of a series, and the starts of all its full windows
ScannedStarts(type, k) == 0..(Len(SeriesOf(type)) - k - 1)

FullWindowStarts(type, k) == 0..(Len(SeriesOf(type)) - k)

\* C7: every returned motif has at least minOccurrences occurrences, and every
\* canonical 4-frame pattern shared by at least minOccurrences scanned windows
\* of a series is returned as exactly one motif of that series' type.
C7_MotifThreshold ==
  IsMotifsCall =>
     /\ ret.status = "returned"
     /\ \A j \in DOMAIN ret.value :
          Len(ret.value[j].occurrences) >= args.minOccurrences
     /\ \A type \in SeriesTypes : \A i \in ScannedStarts(type, 4) :
          LET same == {h \in ScannedStarts(type, 4) :
                         WindowPattern(type, h, 4) = WindowPattern(type, i, 4)}
          IN  Cardinality(same) >= args.minOccurrences =>
                Cardinality({j \in DOMAIN ret.value :
                               /\ ret.value[j].type = type
                               /\ ret.value[j].pattern = WindowPattern(type, i, 4)}) = 1

\* with a threshold of 2, one pattern of the melody is shared by exactly two
\* scanned windows and returned, another one occurs once and is not
C7_Witness ==
  /\ IsMotifsCall
  /\ args.minOccurrences = 2
  /\ \E j \in DOMAIN ret.value :
       ret.value[j].type = "melodic" /\ Len(ret.value[j].occurrences) = 2
  /\ \E i \in ScannedStarts("melodic", 4) :
       \A j \in DOMAIN ret.value :
          ret.value[j].type = "melodic" =>
             ret.value[j].pattern # WindowPattern("melodic", i, 4)

\* the share of the positions at which two canonical patterns agree; two
\* patterns of different lengths share nothing, identical patterns everything
SimilarityOfPatterns(pattern1, pattern2) ==
  IF pattern1 = pattern2 THEN Num(1)
  ELSE IF Len(pattern1) # Len(pattern2) THEN Num(0)
  ELSE RDiv(Num(Cardinality({k \in DOMAIN pattern1 : pattern1[k] = pattern2[k]})),
            Num(Len(pattern1)))

EvolutionOf(similarity) ==
  IF RLe(Rat(8, 10), similarity) THEN "stable"
  ELSE IF RLe(Rat(5, 10), similarity) THEN "variation"
  ELSE "transformation"

\* C25: for melodic and harmonic motifs alike, the evolution of a motif
\* follows from the similarity between its canonical pattern at its first and
\* at its last occurrence: stable from 0.8, variation from 0.5, transformation
\* below; a motif whose first and last occurrences are identical is stable.
C25_EvolutionBySimilarity ==
  (IsMotifsCall /\ ret.status = "returned") =>
     \A j \in DOMAIN ret.value :
        LET motif == ret.value[j]
            first == motif.occurrences[1].start
            last  == motif.occurrences[Len(motif.occurrences)].start
        IN  motif.evolution =
              EvolutionOf(SimilarityOfPatterns(WindowPattern(motif.type, first, 4),
                                               WindowPattern(motif.type, last, 4)))

\* the window starts of the occurrences of one motif
StartsOfMotif(motif) == {motif.occurrences[k].start : k \in DOMAIN motif.occurrences}

\* C29: within one extractMotifs result the motif ids are pairwise distinct,
\* the occurrences of each motif have strictly increasing starts and
\* end = start + 4, and no window start belongs to two motifs of one type.
C29_MotifsDisjoint ==
  (IsMotifsCall /\ ret.status = "returned") =>
     /\ \A j, k \in DOMAIN ret.value : j # k => ret.value[j].id # ret.value[k].id
     /\ \A j \in DOMAIN ret.value :
          LET occurrences == ret.value[j].occurrences
          IN  /\ \A k \in DOMAIN occurrences : occurrences[k].end = occurrences[k].start + 4
              /\ \A k \in 2..Len(occurrences) :
                    occurrences[k - 1].start < occurrences[k].start
     /\ \A j, k \in DOMAIN ret.value :
          (j # k /\ ret.value[j].type = ret.value[k].type) =>
             StartsOfMotif(ret.value[j]) \cap StartsOfMotif(ret.value[k]) = {}

\* two melodic motifs and a harmonic one, one of them with several occurrences
C29_Witness ==
  /\ IsMotifsCall
  /\ ret.status = "returned"
  /\ Cardinality({j \in DOMAIN ret.value : ret.value[j].type = "melodic"}) >= 2
  /\ \E j \in DOMAIN ret.value : ret.value[j].type = "harmonic"
  /\ \E j \in DOMAIN ret.value : Len(ret.value[j].occurrences) >= 2

\* C8 (as claimed): in every returned quote, original.start is the smallest
\* index at which the 8-frame canonical pattern occurs, quoted is non-empty and
\* lists every later occurrence in ascending order, and each span has
\* end = start + 8; a pattern at frame 0 that recurs at frames 10 and 20 gives
\* one quote with original.start = 0 and quoted starts 10 and 20.
C8_QuotesComplete ==
  IsQuotesCall =>
     /\ \A j \in DOMAIN ret.value :
          LET q     == ret.value[j]
              same  == {h \in FullWindowStarts(q.type, 8) :
                          WindowPattern(q.type, h, 8) =
                          WindowPattern(q.type, q.original.start, 8)}
              later == {h \in same : h > q.original.start}
          IN  /\ \A h \in same : q.original.start <= h
              /\ q.original.end = q.original.start + 8
              /\ q.quoted # <<>>
              /\ {q.quoted[k].start : k \in DOMAIN q.quoted} = later
              /\ \A k \in DOMAIN q.quoted :
                   /\ q.quoted[k].end = q.quoted[k].start + 8
                   /\ k > 1 => q.quoted[k - 1].start < q.quoted[k].start
     /\ \A type \in SeriesTypes :
          ( /\ 20 \in FullWindowStarts(type, 8)
            /\ WindowPattern(type, 10, 8) = WindowPattern(type, 0, 8)
            /\ WindowPattern(type, 20, 8) = WindowPattern(type, 0, 8) ) =>
          /\ Cardinality({j \in DOMAIN ret.value :
                ret.value[j].type = type /\ ret.value[j].original.start = 0}) = 1
          /\ \A j \in DOMAIN ret.value :
               (ret.value[j].type = type /\ ret.value[j].original.start = 0) =>
                  {10, 20} \subseteq
                     {ret.value[j].quoted[k].start : k \in DOMAIN ret.value[j].quoted}

Short(series, k) == ~series.present \/ Len(series.v) < k

\* C9: extractMotifs and detectQuotes return an empty list, and do not raise,
\* when both series are empty, absent or shorter than the pattern length
\* (4 frames for motifs, 8 frames for quotes).
C9_ShortInputsEmpty ==
  /\ (IsMotifsCall /\ Short(args.pitchMelody, 4) /\ Short(args.chords, 4)) =>
        ret = Returned(<<>>)
  /\ (IsQuotesCall /\ Short(args.pitchMelody, 8) /\ Short(args.chords, 8)) =>
        ret = Returned(<<>>)

\* a melody of 3 frames, every single occurrence asked for, and no motif
C9_Witness ==
  /\ IsMotifsCall
  /\ args.pitchMelody.present
  /\ Len(args.pitchMelody.v) = 3
  /\ ~args.chords.present
  /\ args.minOccurrences = 1
  /\ ret = Returned(<<>>)

\* the second half of a series of 2k frames repeats its first half
HalvesRepeat(series, k) ==
  /\ Len(series) = 2 * k
  /\ \A j \in 1..k : series[j + k] = series[j]

\* C18 (as claimed): the miner groups the window that starts at every index
\* 0..n-k, the last full window at n-k included: with a threshold of 1 every
\* full window of a series is an occurrence of a returned motif, and a series
\* of exactly 2k frames whose second half repeats its first half yields a
\* motif (k = 4) or a quote (k = 8) with occurrences at 0 and k.
C18_ScansEveryWindow ==
  /\ (IsMotifsCall /\ args.minOccurrences = 1) =>
        \A type \in SeriesTypes : \A i \in FullWindowStarts(type, 4) :
           \E j \in DOMAIN ret.value :
              /\ ret.value[j].type = type
              /\ \E o \in DOMAIN ret.value[j].occurrences :
                    ret.value[j].occurrences[o].start = i
  /\ (IsMotifsCall /\ HalvesRepeat(args.pitchMelody.v, 4)) =>
        \E j \in DOMAIN ret.value :
           {0, 4} \subseteq {ret.value[j].occurrences[o].start :
                               o \in DOMAIN ret.value[j].occurrences}
  /\ (IsQuotesCall /\ HalvesRepeat(args.pitchMelody.v, 8)) =>
        \E j \in DOMAIN ret.value :
           /\ ret.value[j].original.start = 0
           /\ \E o \in DOMAIN ret.value[j].quoted : ret.value[j].quoted[o].start = 8

-----------------------------------------------------------------------------
(* Properties of calculatePsychologicalDescriptors                         *)

IsPsychCall == pc = "done" /\ op = "calculatePsychologicalDescriptors"

EmptyOrAbsent(series) == ~series.present \/ series.v = <<>>

\* C10: with the danceability, energy and tempo series all empty or absent,
\* the result is overallValence = 0.5, overallArousal = 0.5, an empty
\* emotionalTrajectory and no paradigm shift, and holds no NaN.
C10_EmptyDefaults ==
  ( /\ IsPsychCall
    /\ EmptyOrAbsent(args.danceability)
    /\ EmptyOrAbsent(args.energy)
    /\ EmptyOrAbsent(args.tempo) ) =>
     /\ ret.status = "returned"
     /\ ret.value.overallValence = Rat(1, 2)
     /\ ret.value.overallArousal = Rat(1, 2)
     /\ ~IsNaN(ret.value.overallValence)
     /\ ~IsNaN(ret.value.overallArousal)
     /\ ret.value.emotionalTrajectory = <<>>
     /\ ret.value.paradigmShifts = <<>>

\* an empty danceability array, no energy argument and an empty tempo array
C10_Witness ==
  /\ IsPsychCall
  /\ args.danceability = Given(<<>>)
  /\ args.energy = Absent
  /\ args.tempo = Given(<<>>)
  /\ ret.value.emotionalTrajectory = <<>>

InUnit(x) == RLe(Num(0), x) /\ RLe(x, Num(1))

\* C11: whatever the magnitude or sign of the danceability values, every
\* valence of the emotionalTrajectory and the overallValence lie in [0,1].
C11_ValenceInUnit ==
  IsPsychCall =>
     /\ ret.status = "returned"
     /\ \A k \in DOMAIN ret.value.emotionalTrajectory :
          InUnit(ret.value.emotionalTrajectory[k].valence)
     /\ InUnit(ret.value.overallValence)

\* a danceability of 1.5 followed by one of -0.5: valences 1 and 0
C11_Witness ==
  /\ IsPsychCall
  /\ args.danceability = Given(<<NumEntry(150), NumEntry(-50)>>)
  /\ ret.value.emotionalTrajectory[1].valence = Num(1)
  /\ ret.value.emotionalTrajectory[2].valence = Num(0)
  /\ ret.value.overallValence = Rat(1, 2)

\* C12 (as claimed): for every energy and tempo series the overallArousal
\* lies in [0,1].
C12_ArousalInUnit ==
  IsPsychCall => InUnit(ret.value.overallArousal)

\* the absolute changes of valence and arousal from trajectory point i to
\* point i + 1 of the returned trajectory
ValenceChange(i) ==
  RAbs(RSub(ret.value.emotionalTrajectory[i + 1].valence,
            ret.value.emotionalTrajectory[i].valence))

ArousalChange(i) ==
  RAbs(RSub(ret.value.emotionalTrajectory[i + 1].arousal,
            ret.value.emotionalTrajectory[i].arousal))

Exceeds(i) == RGt(ValenceChange(i), Rat(3, 10)) \/ RGt(ArousalChange(i), Rat(3, 10))

\* the records of paradigmShifts that carry the time of trajectory point i
ShiftsAt(i) ==
  {k \in DOMAIN ret.value.paradigmShifts :
     ret.value.paradigmShifts[k].time = ret.value.emotionalTrajectory[i].time}

\* C13: paradigmShifts holds exactly one record for each pair of consecutive
\* trajectory points whose absolute valence change or absolute arousal change
\* exceeds 0.3 and none for any other pair; the record has the later point's
\* time, magnitude = the larger of the two changes (> 0.3), type = the axis
\* with the larger change, and from/to = the valence and arousal of the
\* earlier/later point.
C13_ShiftsExact ==
  IsPsychCall =>
     LET traj   == ret.value.emotionalTrajectory
         shifts == ret.value.paradigmShifts
     IN  /\ \A k \in DOMAIN shifts : \E i \in 1..(Len(traj) - 1) : k \in ShiftsAt(i + 1)
         /\ \A k \in 2..Len(shifts) : RLt(shifts[k - 1].time, shifts[k].time)
         /\ \A i \in 1..(Len(traj) - 1) :
              IF Exceeds(i)
              THEN /\ Cardinality(ShiftsAt(i + 1)) = 1
                   /\ \A k \in ShiftsAt(i + 1) :
                        /\ shifts[k].magnitude = RMax(ValenceChange(i), ArousalChange(i))
                        /\ RGt(shifts[k].magnitude, Rat(3, 10))
                        /\ shifts[k].type \in {"valence", "arousal"}
                        /\ RGt(ValenceChange(i), ArousalChange(i)) =>
                              shifts[k].type = "valence"
                        /\ RGt(ArousalChange(i), ValenceChange(i)) =>
                              shifts[k].type = "arousal"
                        /\ shifts[k].from = [valence |-> traj[i].valence,
                                             arousal |-> traj[i].arousal]
                        /\ shifts[k].to = [valence |-> traj[i + 1].valence,
                                           arousal |-> traj[i + 1].arousal]
              ELSE ShiftsAt(i + 1) = {}

\* three trajectory points: a valence change of exactly 0.3 that is no shift,
\* then a shift on the arousal axis
C13_Witness ==
  /\ IsPsychCall
  /\ Len(ret.value.emotionalTrajectory) = 3
  /\ ValenceChange(1) = Rat(3, 10)
  /\ ~Exceeds(1)
  /\ Exceeds(2)
  /\ Len(ret.value.paradigmShifts) = 1
  /\ ret.value.paradigmShifts[1].type = "arousal"

\* the value of the entry at index i (0-based) of a series, as given, and
\* the default when the series holds no entry at i
GivenValueOr(series, i, default) ==
  IF series.present /\ i + 1 \in DOMAIN series.v
  THEN Rat(series.v[i + 1].v, 100)
  ELSE default

GivenTempoOr(series, i, default) ==
  IF series.present /\ i + 1 \in DOMAIN series.v
  THEN Num(series.v[i + 1].v)
  ELSE default

\* C24: the emotionalTrajectory has one point per frame index up to the
\* longest of the three series; at index i the arousal is
\* 0.6*energy[i] + 0.4*min(1, tempo[i]/200) and the valence is
\* clamp01(danceability[i]), where 0.5, 120 and 0.5 stand in only for an entry
\* the series does not hold: an entry that is there, the number 0 included,
\* is used as given.
C24_DefaultsOnlyWhenMissing ==
  IsPsychCall =>
     LET trajectory == ret.value.emotionalTrajectory
         maxFrames  == Max2(LengthOrZero(args.danceability),
                            Max2(LengthOrZero(args.energy), LengthOrZero(args.tempo)))
     IN  /\ ret.status = "returned"
         /\ Len(trajectory) = maxFrames
         /\ \A i \in 0..(maxFrames - 1) :
               LET dance == GivenValueOr(args.danceability, i, Rat(5, 10))
                   en    == GivenValueOr(args.energy, i, Rat(5, 10))
                   temp  == GivenTempoOr(args.tempo, i, Num(120))
               IN  /\ trajectory[i + 1].valence = RMin(Num(1), RMax(Num(0), dance))
                   /\ trajectory[i + 1].arousal =
                         RAdd(RMul(Rat(6, 10), en),
                              RMul(Rat(4, 10), RMin(Num(1), RDiv(temp, Num(200)))))

-----------------------------------------------------------------------------
(* Properties of analyzeStoryArc                                           *)

IsStoryCall == pc = "done" /\ op = "analyzeStoryArc"

\* C14: on an empty or absent melody analyzeStoryArc returns, without raising,
\* an empty tension list, an empty release list and narrativeStructure
\* 'unknown'.
C14_EmptyStoryArc ==
  (IsStoryCall /\ EmptyOrAbsent(args.pitchMelody)) =>
     ret = Returned([tension |-> <<>>, release |-> <<>>, narrativeStructure |-> "unknown"])

\* the melody argument is an empty array and the call has returned
C14_Witness ==
  /\ IsStoryCall
  /\ args.pitchMelody = Given(<<>>)
  /\ ret.status = "returned"
  /\ ret.value.narrativeStructure = "unknown"

\* the frames of the call and the duration of one frame
StoryFramesOfCall == IF args.pitchMelody.present THEN args.pitchMelody.v ELSE <<>>

HasPositivePitch(frame) ==
  frame.hasPitch /\ \E k \in DOMAIN frame.pitch : frame.pitch[k] > 0

\* C21: every tension point belongs to a frame that holds at least one
\* positive pitch value, and its value is the variance of the positive pitch
\* values of that frame; a frame whose pitch array is empty or holds only
\* zero or negative values gives no tension point.
C21_TensionOnlyForPositivePitch ==
  (IsStoryCall /\ ret.status = "returned") =>
     LET frames == StoryFramesOfCall
         voiced == SelectSeq(FrameRange(0, Len(frames)),
                             LAMBDA i : HasPositivePitch(frames[i + 1]))
     IN  /\ Len(ret.value.tension) = Len(voiced)
         /\ \A k \in DOMAIN voiced :
               /\ ret.value.tension[k].time = RMul(Num(voiced[k]), FrameDurationOfCall)
               /\ ret.value.tension[k].value =
                     calculateVariance(PositivePitches(frames[voiced[k] + 1].pitch))

\* the interior tension points that lie strictly below both neighbours
StrictMinima(tension) ==
  {i \in 2..(Len(tension) - 1) :
     /\ RLt(tension[i].value, tension[i - 1].value)
     /\ RLt(tension[i].value, tension[i + 1].value)}

\* C22: the release list is, in time order, the interior tension points that
\* are strict local minima, each copied with its time and value; the first
\* and the last tension point are never release points and no two adjacent
\* tension points are both release points.
C22_ReleaseIsStrictMinima ==
  (IsStoryCall /\ ret.status = "returned") =>
     LET tension == ret.value.tension
         release == ret.value.release
         minima  == SortedSeq(StrictMinima(tension))
     IN  /\ Len(release) = Len(minima)
         /\ \A k \in DOMAIN minima :
               release[k] = [time  |-> tension[minima[k]].time,
                             value |-> tension[minima[k]].value]
         /\ \A k \in DOMAIN minima :
               /\ minima[k] # 1
               /\ minima[k] # Len(tension)
               /\ k > 1 => minima[k] > minima[k - 1] + 1

\* two release points came out of a tension curve that also holds an
\* interior point level with a neighbour
C22_Witness ==
  /\ IsStoryCall
  /\ ret.status = "returned"
  /\ Len(ret.value.release) = 2
  /\ \E i \in 2..(Len(ret.value.tension) - 1) :
        ret.value.tension[i].value = ret.value.tension[i + 1].value

\* the interior tension points above both neighbours and above 0.5
TensionPeaks(tension) ==
  {i \in 2..(Len(tension) - 1) :
     /\ RGt(tension[i].value, tension[i - 1].value)
     /\ RGt(tension[i].value, tension[i + 1].value)
     /\ RGt(tension[i].value, Rat(5, 10))}

PeakLabel(k) == IF k = 1 THEN "intro" ELSE IF k % 2 = 0 THEN "verse" ELSE "chorus"

\* C23: narrativeStructure holds one label per tension peak, joined by '-':
\* intro for the first peak, then verse, chorus, verse, ... in turn; it is
\* 'unknown' when the tension curve has no peak.
C23_NarrativeFromPeaks ==
  (IsStoryCall /\ ret.status = "returned") =>
     LET count == Cardinality(TensionPeaks(ret.value.tension))
     IN  ret.value.narrativeStructure =
           IF count = 0 THEN "unknown"
           ELSE Join([k \in 1..count |-> PeakLabel(k)], "-")

\* three peaks were labelled
C23_Witness ==
  /\ IsStoryCall
  /\ ret.status = "returned"
  /\ Cardinality(TensionPeaks(ret.value.tension)) = 3
  /\ ret.value.narrativeStructure = "intro-verse-chorus"

-----------------------------------------------------------------------------
(* Properties of analyzeLoopMetadata                                       *)

IsLoopMetadataCall == pc = "done" /\ op = "analyzeLoopMetadata"

\* the harmony frames of the loop's frame range
\* [floor(start/frameDuration), floor(end/frameDuration))
HarmonyFramesOfLoop ==
  LET startFrame == Floor(RDiv(args.loop.start, FrameDurationOfCall))
      endFrame   == Floor(RDiv(args.loop.end, FrameDurationOfCall))
      series     == IF args.features.harmony.present THEN args.features.harmony.v ELSE <<>>
  IN  [k \in 1..(Min2(endFrame, Len(series)) - startFrame) |-> series[startFrame + k]]

\* the chord labels of these frames, in order of appearance
LabelsOfLoop == Flatten([k \in DOMAIN HarmonyFramesOfLoop |-> HarmonyFramesOfLoop[k].chords])

FirstIndexOf(label, labels) ==
  CHOOSE k \in DOMAIN labels :
     labels[k] = label /\ \A h \in 1..(k - 1) : labels[h] # label

\* C26: the harmony list of a loop's metadata holds every distinct chord label
\* of the harmony frames in the loop's frame range, each exactly once, in
\* order of first appearance; it is empty when the range holds no harmony
\* frame.
C26_LoopHarmonyDistinctLabels ==
  (IsLoopMetadataCall /\ ret.status = "returned") =>
     LET harmony == ret.value.harmony
         labels  == LabelsOfLoop
     IN  /\ PairwiseDistinct(harmony)
         /\ {harmony[k] : k \in DOMAIN harmony} = {labels[k] : k \in DOMAIN labels}
         /\ \A j, k \in DOMAIN harmony :
               j < k => FirstIndexOf(harmony[j], labels) < FirstIndexOf(harmony[k], labels)
         /\ HarmonyFramesOfLoop = <<>> => harmony = <<>>

-----------------------------------------------------------------------------
(* Properties of every helper                                              *)

\* the operations of the engine (helpers.js)
EngineOperations ==
  {"generateLoopPoints", "detectSongSections", "extractMotifs", "detectQuotes",
   "analyzeStoryArc", "calculatePsychologicalDescriptors", "analyzeLoopMetadata"}

\* C27: every engine operation terminates and returns a result on every
\* input: generateLoopPoints for every list of whole loop lengths, 0 and
\* negative ones included, and detectSongSections for every positive
\* sampleRate and hopSize, frames longer than 2 seconds included.
C27_EveryOperationTerminates ==
  (pc = "done" /\ op \in EngineOperations) => ret.status = "returned"

-----------------------------------------------------------------------------
(* Properties of the orchestrating layers                                  *)

IsMetadataCall == pc = "done" /\ op = "generateEnhancedMetadata"

IsPostCall == pc = "done" /\ op = "post"

SectionsOfPost ==
  detectSongSections([energy  |-> Given(args.dynamicComplexityArray),
                      tempo   |-> Given(args.bpmArray),
                      harmony |-> chordsArray,
                      timbre  |-> Given(args.mfccArray)], 44100, 512)

\* C16 (as claimed): in generateEnhancedMetadata and in the POST / handler a
\* failure raised by an engine helper is never passed on: it is caught and
\* mapped to the default document.
C16_FailuresCaught ==
  /\ IsMetadataCall =>
        /\ ret.status # "raised"
        /\ MetadataTryBlock(args, args.rate.sampleRate, args.rate.hopSize).status = "raised"
              => ret = Returned(DefaultDocument)
  /\ IsPostCall =>
        /\ ret.status # "raised"
        /\ SectionsOfPost.status = "raised" => ret = Returned(DefaultDocument)

\* C17 (as claimed): in every compiled document beatMarkers.totalBeats is the
\* number of entries of beatMarkers.beats, and for a non-empty beat series (a
\* single beat included) beatMarkers.bpm is a finite positive number equal to
\* 60 / avgBeatInterval, with confidence 0.85.
C17_BeatMarkers ==
  ((IsMetadataCall \/ IsPostCall) /\ ret.status = "returned") =>
     LET beatMarkers == ret.value.beatMarkers
     IN  /\ beatMarkers.totalBeats = Len(beatMarkers.beats)
         /\ beatMarkers.beats # <<>> =>
               /\ beatMarkers.bpm.d # 0
               /\ RGt(beatMarkers.bpm, Num(0))
               /\ beatMarkers.bpm = RDiv(Num(60), avgBeatInterval(beatMarkers.beats))
               /\ beatMarkers.confidence = Rat(85, 100)

-----------------------------------------------------------------------------
(* Properties of the POST / handler                                        *)

IsRequest == op = "post" /\ http.req # "none"

\* the request has run to its end: a response ended it, the analysis failed,
\* or every upload stream has finished or failed
RequestOver ==
  \/ pc = "end"
  \/ pc = "done" /\ ret.status # "returned"
  \/ pc = "uploading" /\ http.open = {}

\* C30: a POST / request gets exactly one HTTP response on every path and
\* under every order of the upload-finish events: never a second one, and one
\* by the time the request is over; the success response is not sent both
\* right after the uploads are started and again by the last finish callback.
C30_ExactlyOneResponse ==
  IsRequest =>
     /\ Len(http.sent) <= 1
     /\ RequestOver => Len(http.sent) = 1

=============================================================================
